---- MODULE Spec2Model ----
(***************************************************************************)
(* fe-monitor SDK: the event pipeline (EventQueue, DataCollector,          *)
(* HTTPTransport, BeaconTransport), the retry helper, the flush timers     *)
(* and the ErrorCollector buffer, as state machines.                       *)
(*                                                                         *)
(* Specifications:                                                         *)
(*   SpecQueue  the EventQueue class driven by arbitrary calls             *)
(*   SpecRetry  utils.retry / HTTPTransport.sendBatch for one batch        *)
(*   Spec       DataCollector + HTTPTransport + BeaconTransport, timers    *)
(*              firing at any moment (no clock)                            *)
(*   SpecAudit  Spec with the fate of every event recorded                 *)
(*   SpecSample DataCollector.addEvent under several sampling configs      *)
(*   SpecErr    ErrorCollector start/stop/capture/collect                  *)
(*   SpecReplay SessionReplayCollector: recording, pause, budgets          *)
(*   SpecSession the session id and the user id in the browser's stores     *)
(*   SpecLife   start/stop of MonitorSDK, DataCollector and the capture    *)
(*              components: handlers, wraps, listeners, timers             *)
(*   SpecTimed  DataCollector.addEvent with the debounce, throttle and     *)
(*              periodic timers on a discrete clock                        *)
(***************************************************************************)
EXTENDS Integers, Sequences, FiniteSets, TLC

\* ------------------------------------------------------------------ bounds
\* Event identities handed out by the model (eventId of BaseEvent).
MaxEvents == 2
\* Batches of HTTPTransport.send calls that may be in flight at the same time.
MaxBatches == 2
\* EventQueue capacity; transport.ts:191 / collector.ts:30 use 1000.
maxSize == 2
\* reporting.batchSize; transport.ts:26 defaults to 50.
batchSize == 1
\* cap of the failed_events store; transport.ts:113 uses 1000.
maxStoredEvents == 2

\* SpecTimed: non-error events admitted before the error event
NonErrors == 5

\* SpecTimed: ms of one step of the clock
Tick == 100

\* ErrorCollector.maxErrorsPerSession (100 in the code)
maxErrorsPerSession == 2

\* 'error' listeners ErrorCollector.start adds to document before the model
\* stops counting starts
MaxListeners == 2

\* SpecLife: starts of one capture component, and flush timeouts left pending
\* without a handle, before the model stops starting
MaxStarts == 2
MaxOrphans == 1

\* BehaviorCollector.maxEventsPerSession, 500 in the code
maxEventsPerSession == 3

\* SpecReplay: SessionReplayCollector.maxRecordsPerSession (1000 in the code)
\* and maxRecordTime (60000 ms in the code) in steps of the clock; the last
\* reading of the clock; the largest batch a MutationObserver delivers
maxRecordsPerSession == 2
maxRecordTime == 1
MaxClock == 3
MaxBatch == 2

\* SpecSession: reads of the session id the audit follows
MaxReads == 4

\* install invocations per plugin
MaxUses == 2

\* subscriptions to the one event
MaxHandlers == 3

\* SpecBatch: events handed to one send, and the largest batchSize
MaxSent == 4

MaxB == 3

\* SpecBurst: error events admitted
MaxErrors == 3

\* iterations of the loop of createBatches that SpecLoop follows
MaxIterations == 5

\* behavior events captured in one session of SpecBuffers
MaxCaptured == 4

\* ------------------------------------------------------- program constants
\* default maxRetries of HTTPTransport and of retry()
DefaultMaxRetries == 3
\* base delay sendBatch passes to retry(), in ms
retryDelay == 1000

\* new EventQueue(1000) in the DataCollector constructor
QueueCapacity == 1000

\* TransportConfig.batchSize default
DefaultBatchSize == 50

\* debounce(() => this.flush(), 1000)
debounceWait == 1000

\* throttle(() => this.flush(), 5000)
throttleLimit == 5000

\* config.reporting.flushInterval default
DefaultFlushInterval == 5000

Kinds == {"performance", "error", "behavior", "replay"}

\* ----------------------------------------------------------------- helpers
Range(s) == {s[k] : k \in 1..Len(s)}

Last(s) == s[Len(s)]

RECURSIVE Pow2(_)
Pow2(n) == IF n <= 0 THEN 1 ELSE 2 * Pow2(n - 1)

Min(a, b) == IF a < b THEN a ELSE b

\* Array.prototype.slice(from, to) on a 0-based array, as a 1-based sequence
slice(s, from, to) ==
    LET lo == from + 1
        hi == Min(to, Len(s))
    IN  IF hi < lo THEN << >> ELSE SubSeq(s, lo, hi)

\* Array.prototype.slice(-n): the last n elements
sliceLast(s, n) ==
    IF Len(s) <= n THEN s ELSE SubSeq(s, Len(s) - n + 1, Len(s))

\* ------------------------------------------------------------- EventQueue
\* EventQueue.enqueue: shift() the head when full, then push()
\* EventQueue.enqueue on a queue constructed with capacity cap
enqueueAt(q, e, cap) ==
    IF Len(q) >= cap THEN Append(Tail(q), e) ELSE Append(q, e)

enqueue_dropNewest(q, e) ==
    IF Len(q) >= maxSize THEN q ELSE Append(q, e)

enqueue(q, e) == enqueueAt(q, e, maxSize)

\* the event enqueue() drops, as a set (empty when nothing is dropped)
enqueueDropped(q) ==
    IF Len(q) >= maxSize /\ Len(q) > 0 THEN {Head(q)} ELSE {}

\* EventQueue.dequeue: shift()
dequeueRest(q) == IF Len(q) = 0 THEN q ELSE Tail(q)

\* EventQueue.drain(): what it returns, and what it leaves in the queue
drainTaken(q) == q

drainRest_keep(q) == q

drainRest(q) == << >>

\* EventQueue.drain(count): splice(0, count)
drainCountTaken(q, n) == slice(q, 0, n)

drainCountRest_all(q, n) == q

drainCountRest(q, n) == slice(q, n, Len(q))

RECURSIVE enqueueAll(_, _)
\* events.forEach(event => this.queue.enqueue(event))
enqueueAll(q, es) ==
    IF es = << >> THEN q ELSE enqueueAll(enqueue(q, Head(es)), Tail(es))

RECURSIVE droppedAll(_, _)
droppedAll(q, es) ==
    IF es = << >> THEN {}
    ELSE enqueueDropped(q) \cup droppedAll(enqueue(q, Head(es)), Tail(es))

\* ----------------------------------------------------- optional JS values
\* A value that may be undefined / null: << >> is undefined, <<v>> is v.
Undefined == << >>

Some(v) == <<v>>

\* ---------------------------------------------------------- HTTPTransport
RECURSIVE createBatchesFrom(_, _, _)
\* the loop of createBatches: for (i = 0; i < events.length; i += batchSize)
createBatchesFrom(events, i, B) ==
    IF i >= Len(events) THEN << >>
    ELSE <<slice(events, i, i + B)>> \o createBatchesFrom(events, i + B, B)

createBatches(events) == createBatchesFrom(events, 0, batchSize)

\* retry(fn, maxRetries = 3, delay): an undefined argument takes the default
retryLimit(cfg) == IF cfg = Undefined THEN DefaultMaxRetries ELSE cfg[1]

\* the setTimeout of retry(): delay * Math.pow(2, i)
retryWait_linear(i) == retryDelay * (i + 1)

retryWait(i) == retryDelay * Pow2(i)

\* retry(): the guard of the sleep after failed attempt i (0-based)
retrySleeps_offByOne(i, R) == i <= R

retrySleeps(i, R) == i < R

\* One batch inside sendBatch/retry.  i is retry()'s loop index, posts the
\* number of performRequest calls issued, waits the setTimeout delays so far.
\* st: "post" a request is in flight, "sleep" the back-off timer is pending,
\* "ok" retry() returned, "failed" retry() threw after the last attempt.
newBatch(events) ==
    [events |-> events, i |-> 0, st |-> "post", posts |-> 1, waits |-> << >>]

\* retry(): the outcome of the request of attempt b.i arrives
onAttemptResult(b, ok, R) ==
    IF ok THEN [b EXCEPT !.st = "ok"]
    ELSE IF retrySleeps(b.i, R)
         THEN [b EXCEPT !.st = "sleep", !.waits = Append(@, retryWait(b.i))]
         ELSE [b EXCEPT !.st = "failed"]

\* retry(): the back-off timer fires, i++ and fn() is called again
onSleepDone(b) == [b EXCEPT !.i = @ + 1, !.st = "post", !.posts = @ + 1]

\* safeJsonStringify / JSON.parse of an event array: the stored item is a
\* string, here the tagged array; events hold only JSON values.
safeJsonStringify(events) == [json |-> events]

jsonParse(str) == str.json

\* getStoredFailedEvents: stored ? JSON.parse(stored) : []
getStoredFailedEvents(item) ==
    IF item = Undefined THEN << >> ELSE jsonParse(item[1])

\* storeFailedEvents: [...existing, ...events].slice(-maxStoredEvents)
storeFailedEvents_overwrite(item, events) ==
    Some(safeJsonStringify(sliceLast(events, maxStoredEvents)))

storeFailedEvents_oldest(item, events) ==
    Some(safeJsonStringify(
        slice(getStoredFailedEvents(item) \o events, 0, maxStoredEvents)))

storeFailedEvents(item, events) ==
    Some(safeJsonStringify(
        sliceLast(getStoredFailedEvents(item) \o events, maxStoredEvents)))

allSettledOutcome_all(batches) ==
    IF \E j \in 1..Len(batches) : batches[j].st = "failed"
    THEN "rejected" ELSE "fulfilled"

\* Promise.allSettled(promises): fulfilled whatever the batches did
allSettledOutcome(batches) == "fulfilled"

\* ---------------------------------------------------------- DataCollector
\* sampling[eventType]: undefined when the config has no such key
samplingLookup(cfg, eventType) ==
    IF eventType \in DOMAIN cfg THEN Some(cfg[eventType]) ELSE Undefined

\* rate = sampling[eventType] || 1, in 1/1000
samplingRate(cfg, eventType) ==
    LET v == samplingLookup(cfg, eventType)
    IN  IF v = Undefined \/ v[1] = 0 THEN 1000 ELSE v[1]

\* shouldSample: Math.random() < rate, the draw in 1/1000 (0..999)
shouldSample(cfg, eventType, draw) == draw < samplingRate(cfg, eventType)

\* ================================================================== state
VARIABLES
    queue,            \* EventQueue.queue
    lastOp,           \* SpecQueue: the last EventQueue call, its argument and result
    cfgMaxRetries,    \* reporting.maxRetries as HTTPTransport passes it to retry()
    audit,            \* the history variables acked .. lastDone, lastTask are recorded
    rb,               \* SpecRetry: the batch inside sendBatch/retry
    rlog,             \* SpecRetry: the outcomes of the requests so far
    sampling,         \* config.sampling
    isStarted,        \* DataCollector.isStarted
    nextId,           \* next event identity
    sends,            \* HTTPTransport.send calls in flight, by slot
    failedItem,       \* storage item 'failed_events'
    debouncePending,  \* debounce(): the timeout is pending
    inThrottle,       \* throttle(): inThrottle
    flushTimer,       \* DataCollector.flushTimer is pending
    admittedKinds,    \* SpecSample: kinds of the events addEvent enqueued
    rejected,         \* SpecSample: kinds addEvent dropped at the sampling check
    acked,            \* audit: ids carried by a request that got an ok response
    beaconed,         \* audit: ids accepted by navigator.sendBeacon
    beaconCalls,      \* audit: the event lists handed to BeaconTransport.send
    evicted,          \* audit: ids dropped by enqueue on a full queue
    handed,           \* per id, how many flush() calls passed it to transport.send
    lastDone,         \* audit: the send call that completed last, as its caller sees it
    lastTask,         \* audit: the listener, timer or call that ran last
    spillCapped,      \* the last storeFailedEvents call cut the array to the cap
    errRunning,       \* ErrorCollector.isRunning (window.onerror is the SDK's)
    resourceListeners, \* 'error' listeners the collector has added to document
    errorBuffer,      \* ErrorCollector.errorBuffer
    errorFingerprints, \* ErrorCollector.errorFingerprints
    errLog,           \* every event addErrorEvent pushed to the buffer, in order
    errTriggered,     \* the errors handed to a handler of the collector
    tDebounce,        \* ms until the debounce timeout fires, when one is set
    tThrottle,        \* ms until the throttle timeout fires, when one is set
    tPeriodic,        \* ms until the scheduleFlush timeout fires, when set
    elapsedFirst,     \* ms since the first admission, once there is one
    elapsedError,     \* ms since the admission of the error event
    errId,            \* the identity of the error event, 0 before it
    burstSpan,        \* elapsedFirst when the error event was admitted
    debounceAt,       \* elapsedError when the debounced flush ran
    posted,           \* the requests issued, each with the flush that sent it
    wOnerror,         \* window.onerror
    originalErrorHandler, \* ErrorCollector.originalErrorHandler
    wOnrejection,     \* window.onunhandledrejection
    originalUnhandledRejectionHandler, \* ErrorCollector's saved handler
    hooksBefore,      \* the two handlers as ErrorCollector.start last found them
    wFetch,           \* window.fetch
    originalFetch,    \* NetworkErrorCollector.originalFetch
    xhrOpen,          \* XMLHttpRequest.prototype.open
    originalXHROpen,  \* NetworkErrorCollector.originalXHROpen
    xhrSend,          \* XMLHttpRequest.prototype.send
    originalXHRSend,  \* NetworkErrorCollector.originalXHRSend
    netBefore,        \* the three functions as NetworkErrorCollector.start last found them
    isInitialized,    \* MonitorSDK.isInitialized
    orphanTimers,     \* pending scheduleFlush timeouts that flushTimer no longer names
    lastCall,         \* audit: the call that ran last and what it did
    domListeners,     \* the event listeners registered on window and document
    observers,        \* the connected PerformanceObservers
    behRunning,       \* BehaviorCollector.isRunning (the field)
    behListeners,     \* BehaviorCollector.listeners
    behStarts,        \* how often setupEventListeners ran: names its closures
    behBufferLen,     \* BehaviorCollector.eventBuffer.length
    pushStateWraps,   \* closures of setupNavigationObserver around history.pushState
    replaceStateWraps, \* the same around history.replaceState
    perfRunning,      \* PerformanceCollector.isRunning (the field)
    perfObserver,     \* PerformanceCollector.observer
    perfStarts,       \* how often PerformanceCollector.start ran: names its closures
    isRecording,      \* SessionReplayCollector.isRecording
    records,          \* SessionReplayCollector.records
    replayListeners,  \* SessionReplayCollector.listeners
    replayObservers,  \* SessionReplayCollector.observers
    recStarts,        \* how often startRecording installed: names its closures
    clock,            \* now()
    lastCollected,    \* audit: the first record of what collect() returned last
    recordingFirst,   \* audit: timestamp of the first record of the recording
    stoppedByBudget,  \* audit: addRecord stopped the recording
    sessionStorageIs, \* the browser's sessionStorage: "ok", "absent" or "quota"
    sessionItem,      \* sessionStorage item monitor_<appId>:session_id
    userItem,         \* localStorage item monitor_<appId>:user_id
    sidNext,          \* names the next new session id
    sidReads,         \* audit: the session ids handed out, in order
    identity,         \* audit: the last setUser or clearUser of this SDK
    localStorageIs,   \* the browser's localStorage: "ok", "absent" or "quota"
    lsBrowser,        \* localStorage item of the key the kept LocalStorage object uses
    lsFallback,       \* the same key in the fallback MemoryStorage of that object
    plugins,          \* MonitorSDK.plugins: the names it holds
    installCalls,     \* audit: per plugin, how often install was invoked
    uninstallCalls,   \* audit: per plugin, how often uninstall was invoked
    eventHandlers,    \* MonitorSDK.eventHandlers.get(evt), empty without the key
    invoked,          \* audit: the handlers the last emit invoked, in order
    batchIn,          \* the events handed to createBatches
    batchB,           \* config.batchSize of that call
    batchOut,         \* the batches it returned
    bursts,           \* audit: bursts of error admissions begun
    burstSize,        \* audit: error admissions of the last burst
    debounceFlushes,  \* audit: how often the debounced flush ran
    delivery,         \* audit: the handlers the last dispatch reached, in order, with their arguments
    hostCall,         \* audit: the last host call of fetch, open or send: whether the original was reached with its arguments, its outcome, and what the host got
    eventBuffer,      \* BehaviorCollector.eventBuffer, events named by their number
    behCaptured,      \* behavior events created in this session
    sinceCollect,     \* audit: events admitted to each buffer since its last collect
    returned,         \* audit: the last collect and what it returned
    collectorUserId,  \* the userId field of the collectors, given to their constructors
    envelope,         \* audit: component and userId of the last event created
    loopI,            \* the loop variable i
    looping           \* createBatches has been entered and has not returned

vars == <<queue, lastOp, cfgMaxRetries, audit, rb, rlog, sampling, isStarted, nextId,
          sends, failedItem, debouncePending, inThrottle, flushTimer,
          admittedKinds, rejected, acked, beaconed, beaconCalls, evicted, handed, lastDone, lastTask,
          spillCapped, errRunning, resourceListeners, errorBuffer,
          errorFingerprints, errLog, errTriggered, tDebounce, tThrottle,
          tPeriodic, elapsedFirst, elapsedError, errId, burstSpan, debounceAt,
          posted, wOnerror, originalErrorHandler, wOnrejection,
          originalUnhandledRejectionHandler, hooksBefore, wFetch,
          originalFetch, xhrOpen, originalXHROpen, xhrSend, originalXHRSend,
          netBefore, isInitialized, orphanTimers, lastCall, domListeners,
          observers, behRunning, behListeners, behStarts, behBufferLen,
          pushStateWraps, replaceStateWraps, perfRunning, perfObserver,
          perfStarts, isRecording, records, replayListeners, replayObservers,
          recStarts, clock, lastCollected, recordingFirst, stoppedByBudget,
          sessionStorageIs, sessionItem, userItem, sidNext, sidReads,
          identity,
          localStorageIs, lsBrowser, lsFallback,
          plugins, installCalls, uninstallCalls,
          eventHandlers, invoked,
          batchIn, batchB, batchOut,
          bursts, burstSize, debounceFlushes,
          delivery,
          hostCall,
          eventBuffer, behCaptured, sinceCollect, returned,
          collectorUserId, envelope,
          loopI, looping>>

queueVars == <<queue, lastOp>>

timedVars == <<tDebounce, tThrottle, tPeriodic, elapsedFirst, elapsedError,
               errId, burstSpan, debounceAt, posted>>

errVars == <<errRunning, resourceListeners, errorBuffer, errorFingerprints,
             errLog, errTriggered>>

\* fixed at construction
configVars == <<cfgMaxRetries, audit>>

\* the global error handlers and what ErrorCollector saved of them
hookVars == <<wOnerror, originalErrorHandler, wOnrejection,
              originalUnhandledRejectionHandler, hooksBefore>>

\* fetch and XMLHttpRequest and what NetworkErrorCollector saved of them
netVars == <<wFetch, originalFetch, xhrOpen, originalXHROpen, xhrSend,
             originalXHRSend, netBefore>>

sdkVars == <<isInitialized, orphanTimers>>

\* BehaviorCollector and PerformanceCollector with the listeners and observers
\* of the page
capVars == <<domListeners, observers, behRunning, behListeners, behStarts,
             behBufferLen, pushStateWraps, replaceStateWraps, perfRunning,
             perfObserver, perfStarts>>

\* SessionReplayCollector
replayVars == <<isRecording, records, replayListeners, replayObservers,
                recStarts, clock, lastCollected, recordingFirst,
                stoppedByBudget>>

\* the stores behind getSessionId and getUserId
sessVars == <<sessionStorageIs, sessionItem, userItem, sidNext, sidReads,
              identity>>

\* the browser's localStorage and one LocalStorage object that is kept
storeVars == <<localStorageIs, lsBrowser, lsFallback>>

\* MonitorSDK.plugins and what its plugins saw
pluginVars == <<plugins, installCalls, uninstallCalls>>

\* the event bus of MonitorSDK, for one event name
busVars == <<eventHandlers, invoked>>

\* one call of HTTPTransport.createBatches
batchVars == <<batchIn, batchB, batchOut>>

\* audit of the debounced flush over bursts of error events
burstVars == <<bursts, burstSize, debounceFlushes>>

\* what the last global error or rejection reached
hostVars == <<delivery>>

\* what the last network call of the host came to
callVars == <<hostCall>>

\* the contents of BehaviorCollector.eventBuffer and what the collect calls returned
bufVars == <<eventBuffer, behCaptured, sinceCollect, returned>>

\* the userId the capture components hold and the envelope of the last event
identVars == <<collectorUserId, envelope>>

\* the for loop of createBatches, iteration by iteration
loopVars == <<loopI, looping>>

\* the parts of the SDK and of the page modelled apart from the pipeline
moreVars == <<storeVars, pluginVars, busVars, batchVars, burstVars, hostVars, callVars, bufVars, identVars, loopVars>>

\* what start and stop of the default configuration do not reach
apartVars == <<replayVars, sessVars, moreVars>>

lifeVars == <<hookVars, netVars, sdkVars, capVars, apartVars, lastCall>>

retryVars == <<configVars, lifeVars, rb, rlog>>

sampleVars == <<sampling, admittedKinds, rejected>>

pipeVars == <<sampleVars, isStarted, nextId, sends, debouncePending,
              inThrottle, flushTimer, acked, beaconed, beaconCalls, evicted, handed,
              lastDone, lastTask, spillCapped>>

Ids == 1..MaxEvents

\* SpecQueue: the events handed to enqueue, one more than the pipeline uses
QIds == 1..(MaxEvents + 1)

Slots == 1..MaxBatches

NoOp == [op |-> "none", arg |-> 0, ret |-> << >>, dropped |-> {}]

NoSend == [caller |-> "none", batches |-> << >>]

NoDone == [caller |-> "none", failed |-> FALSE, outcome |-> "none"]

\* validateAndMergeConfig: the default sampling block, in 1/1000
DefaultSampling ==
    [k \in {"performance", "errors", "behavior", "replay"} |->
        CASE k = "performance" -> 1000
          [] k = "errors" -> 1000
          [] k = "behavior" -> 100
          [] k = "replay" -> 10]

\* no timeout set, nothing admitted or posted
InitTimedIdle ==
    /\ tDebounce = Undefined
    /\ tThrottle = Undefined
    /\ tPeriodic = Undefined
    /\ elapsedFirst = Undefined
    /\ elapsedError = Undefined
    /\ errId = 0
    /\ burstSpan = Undefined
    /\ debounceAt = Undefined
    /\ posted = << >>

\* references to functions: null, a handler or function of the page, the
\* browser's own function, the closure an SDK component installs, and no
\* function at all (typeof fetch === 'undefined')
Null == "null"
PageFn == "page"
PageFn2 == "page2"
Native == "native"
SdkFn == "sdk"
Absent == "undefined"

\* a call of the lifecycle API as the audit keeps it: whether it threw, the
\* lifecycle event MonitorSDK.emit announced, the events or records it admitted
Call(op, threw, emits, events) ==
    [op |-> op, threw |-> threw, emits |-> emits, events |-> events]

NoCall == Call("none", FALSE, "none", 0)

\* a page without handlers of its own, nothing of the SDK installed, with a
\* working sessionStorage
InitHooksIdle ==
    /\ sessionStorageIs = "ok"
    /\ localStorageIs = "ok"
    /\ wOnerror = Null
    /\ wOnrejection = Null
    /\ wFetch = Native

\* new ErrorCollector, new NetworkErrorCollector, new MonitorSDK
InitLifeIdle ==
    /\ originalErrorHandler = Undefined
    /\ originalUnhandledRejectionHandler = Undefined
    /\ hooksBefore = Undefined
    /\ xhrOpen = Native
    /\ xhrSend = Native
    /\ originalFetch = Undefined
    /\ originalXHROpen = Undefined
    /\ originalXHRSend = Undefined
    /\ netBefore = Undefined
    /\ isInitialized = FALSE
    /\ orphanTimers = 0
    /\ lastCall = NoCall
    /\ domListeners = {}
    /\ observers = {}
    /\ behRunning = FALSE
    /\ behListeners = {}
    /\ behStarts = 0
    /\ behBufferLen = 0
    /\ pushStateWraps = 0
    /\ replaceStateWraps = 0
    /\ perfRunning = FALSE
    /\ perfObserver = Undefined
    /\ perfStarts = 0
    /\ isRecording = FALSE
    /\ records = << >>
    /\ replayListeners = {}
    /\ replayObservers = {}
    /\ recStarts = 0
    /\ clock = 0
    /\ lastCollected = Undefined
    /\ recordingFirst = Undefined
    /\ stoppedByBudget = FALSE
    /\ sessionItem = Undefined
    /\ userItem = Undefined
    /\ sidNext = 1
    /\ sidReads = << >>
    /\ loopI = 0
    /\ looping = FALSE
    /\ identity = [called |-> FALSE, userId |-> Undefined]
    /\ collectorUserId = Undefined
    /\ envelope = [component |-> "none", userId |-> Undefined]
    /\ eventBuffer = << >>
    /\ behCaptured = 0
    /\ sinceCollect = [error |-> << >>, behavior |-> << >>]
    /\ returned = [of |-> "none", errors |-> << >>, events |-> << >>]
    /\ hostCall = [api |-> "none", reached |-> FALSE, original |-> "none", got |-> "none"]
    /\ delivery = << >>
    /\ bursts = 0
    /\ burstSize = 0
    /\ debounceFlushes = 0
    /\ batchIn = << >>
    /\ batchB = DefaultBatchSize
    /\ batchOut = << >>
    /\ eventHandlers = << >>
    /\ invoked = << >>
    /\ plugins = {}
    /\ installCalls = [p \in {"p1", "p2", "p3"} |-> 0]
    /\ uninstallCalls = [p \in {"p1", "p2", "p3"} |-> 0]
    /\ lsBrowser = Undefined
    /\ lsFallback = Undefined

\* a new ErrorCollector
InitErrIdle ==
    /\ errRunning = FALSE
    /\ resourceListeners = 0
    /\ errorBuffer = << >>
    /\ errorFingerprints = {}
    /\ errLog = << >>
    /\ errTriggered = {}

\* an empty EventQueue
InitQueueIdle ==
    /\ queue = << >>
    /\ lastOp = NoOp

\* no batch under retry
InitRetryIdle ==
    /\ rb = newBatch(<<1>>)
    /\ rlog = << >>

\* the new value of a history variable: recorded under audit only, so that
\* the specifications that do not read it are not split by it
recorded(old, new) == IF audit THEN new ELSE old

\* a DataCollector after its constructor, nothing stored
InitPipeIdle ==
    /\ isStarted = FALSE
    /\ nextId = 1
    /\ sends = [s \in Slots |-> NoSend]
    /\ failedItem = Undefined
    /\ debouncePending = FALSE
    /\ inThrottle = FALSE
    /\ flushTimer = FALSE
    /\ admittedKinds = {}
    /\ rejected = {}
    /\ acked = {}
    /\ beaconed = {}
    /\ beaconCalls = << >>
    /\ evicted = {}
    /\ handed = [e \in Ids |-> 0]
    /\ lastDone = NoDone
    /\ lastTask = "none"
    /\ spillCapped = FALSE

\* the state right after new DataCollector(config), nothing started
InitIdle ==
    /\ InitQueueIdle
    /\ InitRetryIdle
    /\ InitPipeIdle
    /\ audit = FALSE
    /\ InitErrIdle
    /\ InitHooksIdle
    /\ InitLifeIdle
    /\ InitTimedIdle
    /\ cfgMaxRetries = Some(DefaultMaxRetries)
    /\ sampling = DefaultSampling

\* ============================================================== SpecQueue
\* new EventQueue(maxSize), then any calls
QEnqueue(e) ==
    /\ queue' = enqueue(queue, e)
    /\ lastOp' = [op |-> "enqueue", arg |-> e, ret |-> << >>,
                  dropped |-> enqueueDropped(queue)]
    /\ UNCHANGED <<retryVars, errVars, timedVars, pipeVars, failedItem>>

QDequeue ==
    /\ queue' = dequeueRest(queue)
    /\ lastOp' = [op |-> "dequeue", arg |-> 0,
                  ret |-> slice(queue, 0, 1), dropped |-> {}]
    /\ UNCHANGED <<retryVars, errVars, timedVars, pipeVars, failedItem>>

QDrain ==
    /\ queue' = drainRest(queue)
    /\ lastOp' = [op |-> "drain", arg |-> 0,
                  ret |-> drainTaken(queue), dropped |-> {}]
    /\ UNCHANGED <<retryVars, errVars, timedVars, pipeVars, failedItem>>

QDrainCount(n) ==
    /\ queue' = drainCountRest(queue, n)
    /\ lastOp' = [op |-> "drainCount", arg |-> n,
                  ret |-> drainCountTaken(queue, n), dropped |-> {}]
    /\ UNCHANGED <<retryVars, errVars, timedVars, pipeVars, failedItem>>

QClear ==
    /\ queue' = << >>
    /\ lastOp' = [op |-> "clear", arg |-> 0, ret |-> << >>, dropped |-> {}]
    /\ UNCHANGED <<retryVars, errVars, timedVars, pipeVars, failedItem>>

NextQueue ==
    \/ \E e \in QIds : QEnqueue(e)
    \/ QDequeue
    \/ QDrain
    \/ \E n \in 0..(maxSize + 1) : QDrainCount(n)
    \/ QClear

SpecQueue == InitIdle /\ [][NextQueue]_vars

\* ============================================================== SpecRetry
\* sendBatch(events) with retry(() => performRequest(events), maxRetries, 1000)
RetryOutcomes == {"ok", "http500", "timeout"}

InitRetry ==
    /\ InitQueueIdle
    /\ InitPipeIdle
    /\ audit = FALSE
    /\ InitErrIdle
    /\ InitHooksIdle
    /\ InitLifeIdle
    /\ InitTimedIdle
    /\ sampling = DefaultSampling
    /\ cfgMaxRetries \in {Undefined} \cup {Some(n) : n \in 0..DefaultMaxRetries}
    /\ rb \in {newBatch(<<1>>), newBatch(<<1, 2>>)}
    /\ rlog = << >>

\* the response (or the abort) of the request in flight arrives
RetryAttemptResult(outcome) ==
    /\ rb.st = "post"
    /\ rb' = onAttemptResult(rb, outcome = "ok", retryLimit(cfgMaxRetries))
    /\ rlog' = Append(rlog, outcome)
    /\ failedItem' = IF rb'.st = "failed"
                     THEN storeFailedEvents(failedItem, rb.events)
                     ELSE failedItem
    /\ UNCHANGED <<queueVars, configVars, lifeVars, errVars, timedVars, pipeVars>>

\* the back-off timer fires
RetrySleepDone ==
    /\ rb.st = "sleep"
    /\ rb' = onSleepDone(rb)
    /\ UNCHANGED <<queueVars, configVars, lifeVars, errVars, timedVars, rlog, pipeVars, failedItem>>

NextRetry ==
    \/ \E outcome \in RetryOutcomes : RetryAttemptResult(outcome)
    \/ RetrySleepDone

SpecRetry == InitRetry /\ [][NextRetry]_vars

\* =================================================================== Spec
\* DataCollector with its HTTPTransport and BeaconTransport.  Every action is
\* one task of the event loop: a handler or timer callback run to completion,
\* together with the promise continuations it releases.
SamplingConfigs ==
    { DefaultSampling,
      [k \in DOMAIN DefaultSampling |->
          IF k \in {"performance", "errors"} THEN 0 ELSE 1000],
      [k \in DOMAIN DefaultSampling |->
          IF k \in {"performance", "errors"} THEN 1000 ELSE 0] }

\* Math.random() results the model draws, in 1/1000
Draws == {0, 50, 999}

\* the key of config.sampling that configures a kind of event
samplingKey(kind) == IF kind = "error" THEN "errors" ELSE kind

\* batches of the send calls in flight
RECURSIVE InFlight(_, _)
InFlight(ss, s) ==
    IF s = 0 THEN 0 ELSE Len(ss[s].batches) + InFlight(ss, s - 1)

\* the model starts a send only while its batches fit the bound
Fits(ss, events) ==
    InFlight(ss, MaxBatches) + Len(createBatches(events)) <= MaxBatches

FreeSlot(ss) ==
    CHOOSE s \in Slots :
        ss[s] = NoSend /\ \A t \in Slots : t < s => ss[t] # NoSend

\* HTTPTransport.send(events), events non-empty: createBatches, then
\* sendBatch on each batch, which issues its first request at once
startSend(ss, caller, events) ==
    LET cb == createBatches(events)
    IN  [ss EXCEPT ![FreeSlot(ss)] =
            [caller |-> caller,
             batches |-> [j \in 1..Len(cb) |-> newBatch(cb[j])]]]

\* DataCollector.flush up to its await, on st = [queue, sends, handed]
flush(st) ==
    LET events == drainTaken(st.queue)
    IN  IF Len(events) = 0
        THEN [st EXCEPT !.queue = drainRest(st.queue)]
        ELSE [queue |-> drainRest(st.queue),
              sends |-> startSend(st.sends, "flush", events),
              handed |-> [e \in Ids |->
                            IF e \in Range(events)
                            THEN st.handed[e] + 1 ELSE st.handed[e]]]

flushFits(st) == Fits(st.sends, drainTaken(st.queue))

Now == [queue |-> queue, sends |-> sends, handed |-> handed]

Becomes(st) ==
    /\ queue' = st.queue
    /\ sends' = st.sends
    /\ handed' = st.handed

\* HTTPTransport.retryFailedEvents up to its await
retryFailedEvents(ss, item) ==
    LET failedEvents == getStoredFailedEvents(item)
    IN  IF Len(failedEvents) = 0 THEN ss
        ELSE startSend(ss, "retry", failedEvents)

retryFits(ss, item) == Fits(ss, getStoredFailedEvents(item))

Settled(b) == b.st \in {"ok", "failed"}

\* a send call whose batches have all settled and whose caller has not resumed
Resolved(snd) ==
    /\ snd # NoSend
    /\ \A k \in 1..Len(snd.batches) : Settled(snd.batches[k])

\* no promise continuation is pending: the event loop may run the next task
TaskBoundary == \A s \in Slots : ~Resolved(sends[s])

FailedEvents(batches) ==
    UNION {Range(batches[j].events) :
             j \in {k \in 1..Len(batches) : batches[k].st = "failed"}}

RECURSIVE Flatten(_)
Flatten(batches) ==
    IF batches = << >> THEN << >>
    ELSE Head(batches).events \o Flatten(Tail(batches))

InitPipe ==
    /\ InitQueueIdle
    /\ InitRetryIdle
    /\ InitPipeIdle
    /\ audit = FALSE
    /\ InitErrIdle
    /\ InitHooksIdle
    /\ InitLifeIdle
    /\ InitTimedIdle
    /\ cfgMaxRetries = Some(1)
    /\ sampling = DefaultSampling

\* DataCollector.start of a collector built with features.performance, errors
\* and behavior off: no capture component and no NetworkErrorCollector, so
\* the collectors loop and the interception are empty (DcStart and DcStop
\* model them for the default features)
Start ==
    /\ TaskBoundary
    /\ ~isStarted
    /\ retryFits(sends, failedItem)
    /\ isStarted' = TRUE
    /\ flushTimer' = TRUE
    /\ sends' = retryFailedEvents(sends, failedItem)
    /\ lastTask' = recorded(lastTask, "start")
    /\ UNCHANGED <<queueVars, retryVars, errVars, timedVars, sampleVars, nextId, failedItem,
                   debouncePending, inThrottle, acked,
                   beaconed, beaconCalls, evicted, handed, lastDone, spillCapped>>

\* DataCollector.stop
Stop ==
    /\ TaskBoundary
    /\ isStarted
    /\ flushFits(Now)
    /\ isStarted' = FALSE
    /\ flushTimer' = FALSE
    /\ Becomes(flush(Now))
    /\ lastTask' = recorded(lastTask, "stop")
    /\ UNCHANGED <<lastOp, retryVars, errVars, timedVars, sampleVars, nextId, failedItem,
                   debouncePending, inThrottle, acked,
                   beaconed, beaconCalls, evicted, lastDone, spillCapped>>

\* DataCollector.addEvent(event) with event.type = kind and Math.random() =
\* draw, for a started collector; the event gets the next identity
addEvent(kind, draw) ==
    /\ TaskBoundary
    /\ isStarted
    /\ nextId <= MaxEvents
    /\ IF ~shouldSample(sampling, kind, draw)
       THEN UNCHANGED <<queue, sends, handed, nextId, evicted,
                        debouncePending, inThrottle>>
       ELSE LET queued == [Now EXCEPT !.queue = enqueue(queue, nextId)]
            IN  /\ nextId' = nextId + 1
                /\ evicted' = recorded(evicted, evicted \cup enqueueDropped(queue))
                /\ IF kind = "error"
                   THEN /\ debouncePending' = TRUE
                        /\ inThrottle' = inThrottle
                        /\ Becomes(queued)
                   ELSE /\ debouncePending' = debouncePending
                        /\ inThrottle' = TRUE
                        /\ IF inThrottle
                           THEN Becomes(queued)
                           ELSE flushFits(queued) /\ Becomes(flush(queued))
    /\ lastTask' = recorded(lastTask, "addEvent")
    /\ UNCHANGED <<lastOp, retryVars, errVars, timedVars, sampling, isStarted, failedItem,
                   flushTimer, acked, beaconed, beaconCalls, lastDone, spillCapped>>

AddEvent(kind, draw) ==
    /\ addEvent(kind, draw)
    /\ UNCHANGED <<admittedKinds, rejected>>

\* the timeout set by debouncedFlush fires
DebounceFire ==
    /\ TaskBoundary
    /\ debouncePending
    /\ flushFits(Now)
    /\ debouncePending' = FALSE
    /\ Becomes(flush(Now))
    /\ lastTask' = recorded(lastTask, "debounce")
    /\ UNCHANGED <<lastOp, retryVars, errVars, timedVars, sampleVars, isStarted, nextId, failedItem,
                   inThrottle, flushTimer, acked,
                   beaconed, beaconCalls, evicted, lastDone, spillCapped>>

\* the timeout set by throttledFlush fires
ThrottleRelease ==
    /\ TaskBoundary
    /\ inThrottle
    /\ inThrottle' = FALSE
    /\ lastTask' = recorded(lastTask, "throttle")
    /\ UNCHANGED <<queueVars, retryVars, errVars, timedVars, sampleVars, isStarted, nextId, sends,
                   failedItem, debouncePending, flushTimer, acked, beaconed, beaconCalls, evicted, handed, lastDone, spillCapped>>

\* the timeout of scheduleFlush fires: collectAndFlush, then scheduleFlush.
\* No capture component holds an event in this specification, so the
\* collect loop enqueues nothing.
PeriodicFlush ==
    /\ TaskBoundary
    /\ flushTimer
    /\ isStarted
    /\ flushFits(Now)
    /\ Becomes(IF Len(queue) > 0 THEN flush(Now) ELSE Now)
    /\ flushTimer' = TRUE
    /\ lastTask' = recorded(lastTask, "timer")
    /\ UNCHANGED <<lastOp, retryVars, errVars, timedVars, sampleVars, isStarted, nextId, failedItem,
                   debouncePending, inThrottle, acked,
                   beaconed, beaconCalls, evicted, lastDone, spillCapped>>

\* MonitorSDK.flush
ManualFlush ==
    /\ TaskBoundary
    /\ isStarted
    /\ flushFits(Now)
    /\ Becomes(flush(Now))
    /\ lastTask' = recorded(lastTask, "flush")
    /\ UNCHANGED <<lastOp, retryVars, errVars, timedVars, sampleVars, isStarted, nextId, failedItem,
                   debouncePending, inThrottle, flushTimer, acked, beaconed, beaconCalls, evicted, lastDone, spillCapped>>

\* the visibilitychange listener with visibilityState = 'hidden'
VisibilityHidden ==
    /\ TaskBoundary
    /\ flushFits(Now)
    /\ Becomes(flush(Now))
    /\ lastTask' = recorded(lastTask, "visibilitychange")
    /\ UNCHANGED <<lastOp, retryVars, errVars, timedVars, sampleVars, isStarted, nextId, failedItem,
                   debouncePending, inThrottle, flushTimer, acked, beaconed, beaconCalls, evicted, lastDone, spillCapped>>

\* DataCollector.sendBeacon on queue q: drain, then BeaconTransport.send;
\* a refused or missing beacon throws and the catch only logs
sendBeaconQueue(q) == drainRest(q)

\* sendBeacon returns before the transport when the drained list is empty
sendBeaconCalls(calls, q) ==
    IF Len(drainTaken(q)) = 0 THEN calls ELSE Append(calls, drainTaken(q))

sendBeaconAccepted(q, accepted) ==
    IF accepted THEN Range(drainTaken(q)) ELSE {}

\* the pagehide listener
PageHide(accepted) ==
    /\ TaskBoundary
    /\ queue' = sendBeaconQueue(queue)
    /\ beaconed' = recorded(beaconed,
                          beaconed \cup sendBeaconAccepted(queue, accepted))
    /\ beaconCalls' = recorded(beaconCalls, sendBeaconCalls(beaconCalls, queue))
    /\ lastTask' = recorded(lastTask, "pagehide")
    /\ UNCHANGED <<lastOp, retryVars, errVars, timedVars, sampleVars, isStarted, nextId, sends,
                   failedItem, debouncePending, inThrottle, flushTimer,
                   acked, evicted, handed, lastDone, spillCapped>>

\* the beforeunload listeners: the module-level one (MonitorSDK.flush, which
\* returns at once unless the SDK is started) was registered when the module
\* was loaded, the DataCollector's (sendBeacon) in its constructor, later
BeforeUnload(accepted) ==
    LET flushed == IF isStarted THEN flush(Now) ELSE Now
    IN  /\ TaskBoundary
        /\ isStarted => flushFits(Now)
        /\ Becomes([flushed EXCEPT !.queue = sendBeaconQueue(flushed.queue)])
        /\ beaconed' = recorded(beaconed,
                beaconed \cup sendBeaconAccepted(flushed.queue, accepted))
        /\ beaconCalls' = recorded(beaconCalls,
                sendBeaconCalls(beaconCalls, flushed.queue))
        /\ lastTask' = recorded(lastTask, "beforeunload")
        /\ UNCHANGED <<lastOp, retryVars, errVars, timedVars, sampleVars, isStarted, nextId,
                       failedItem, debouncePending, inThrottle, flushTimer,
                       acked, evicted, lastDone, spillCapped>>

\* the online listener: transport.retryFailedEvents()
Online ==
    /\ TaskBoundary
    /\ Len(getStoredFailedEvents(failedItem)) > 0
    /\ retryFits(sends, failedItem)
    /\ sends' = retryFailedEvents(sends, failedItem)
    /\ lastTask' = recorded(lastTask, "online")
    /\ UNCHANGED <<queueVars, retryVars, errVars, timedVars, sampleVars, isStarted, nextId,
                   failedItem, debouncePending, inThrottle, flushTimer,
                   acked, beaconed, beaconCalls, evicted, handed,
                   lastDone, spillCapped>>

\* the response of the request of batch j of send s arrives (ok or not): the
\* continuation of retry() and, for a batch out of retries, the catch of
\* sendBatch, which spills the batch and rethrows
PostResult(s, j, ok) ==
    /\ TaskBoundary
    /\ sends[s] # NoSend
    /\ j \in 1..Len(sends[s].batches)
    /\ sends[s].batches[j].st = "post"
    /\ LET b == sends[s].batches[j]
           b2 == onAttemptResult(b, ok, retryLimit(cfgMaxRetries))
       IN  /\ acked' = recorded(acked,
                        IF ok THEN acked \cup Range(b.events) ELSE acked)
           /\ sends' = [sends EXCEPT ![s].batches[j] = b2]
           /\ failedItem' = IF b2.st = "failed"
                            THEN storeFailedEvents(failedItem, b.events)
                            ELSE failedItem
           /\ spillCapped' =
                IF b2.st = "failed"
                THEN Len(getStoredFailedEvents(failedItem)) + Len(b.events)
                        > maxStoredEvents
                ELSE spillCapped
    /\ lastTask' = recorded(lastTask, "response")
    /\ UNCHANGED <<queueVars, retryVars, errVars, timedVars, sampleVars, isStarted, nextId,
                   debouncePending, inThrottle, flushTimer, beaconed, beaconCalls, evicted,
                   handed, lastDone>>

\* every batch of send s has settled: Promise.allSettled resolves, send
\* returns and its caller resumes, in the microtasks of the task that settled
\* the last batch.  flush's catch re-enqueues the events on rejection;
\* retryFailedEvents removes the item on fulfilment and only logs on rejection.
Resume(s) ==
    /\ Resolved(sends[s])
    /\ LET batches == sends[s].batches
           caller == sends[s].caller
           outcome == allSettledOutcome(batches)
       IN  /\ sends' = [sends EXCEPT ![s] = NoSend]
           /\ lastDone' = recorded(lastDone,
                                   [caller |-> caller,
                                    failed |-> FailedEvents(batches) # {},
                                    outcome |-> outcome])
           /\ failedItem' = IF caller = "retry" /\ outcome = "fulfilled"
                            THEN Undefined ELSE failedItem
           /\ queue' = IF caller = "flush" /\ outcome = "rejected"
                       THEN enqueueAll(queue, Flatten(batches)) ELSE queue
           /\ evicted' = recorded(evicted,
                            IF caller = "flush" /\ outcome = "rejected"
                            THEN evicted \cup droppedAll(queue, Flatten(batches))
                            ELSE evicted)
    /\ lastTask' = recorded(lastTask, "resume")
    /\ UNCHANGED <<lastOp, retryVars, errVars, timedVars, sampleVars, isStarted, nextId,
                   debouncePending, inThrottle, flushTimer, acked, beaconed, beaconCalls,
                   handed, spillCapped>>

\* the back-off timer of batch j of send s fires: the next request is issued
SleepDone(s, j) ==
    /\ TaskBoundary
    /\ sends[s] # NoSend
    /\ j \in 1..Len(sends[s].batches)
    /\ sends[s].batches[j].st = "sleep"
    /\ sends' = [sends EXCEPT ![s].batches[j] = onSleepDone(@)]
    /\ lastTask' = recorded(lastTask, "backoff")
    /\ UNCHANGED <<queueVars, retryVars, errVars, timedVars, sampleVars, isStarted, nextId,
                   failedItem, debouncePending, inThrottle, flushTimer,
                   acked, beaconed, beaconCalls, evicted, handed,
                   lastDone, spillCapped>>

Next ==
    \/ Start
    \/ Stop
    \/ \E kind \in Kinds, draw \in Draws : AddEvent(kind, draw)
    \/ DebounceFire
    \/ ThrottleRelease
    \/ PeriodicFlush
    \/ ManualFlush
    \/ VisibilityHidden
    \/ \E accepted \in BOOLEAN : PageHide(accepted)
    \/ \E accepted \in BOOLEAN : BeforeUnload(accepted)
    \/ Online
    \/ \E s \in Slots, j \in 1..MaxBatches, ok \in BOOLEAN : PostResult(s, j, ok)
    \/ \E s \in Slots, j \in 1..MaxBatches : SleepDone(s, j)
    \/ \E s \in Slots : Resume(s)

Spec == InitPipe /\ [][Next]_vars

\* ============================================================== SpecAudit
\* the same collector and the same steps, with acked, beaconed, evicted and
\* lastDone recording what became of every event and of every send call
InitAudit ==
    /\ InitQueueIdle
    /\ InitRetryIdle
    /\ InitPipeIdle
    /\ InitErrIdle
    /\ InitHooksIdle
    /\ InitLifeIdle
    /\ InitTimedIdle
    /\ audit = TRUE
    /\ cfgMaxRetries = Some(1)
    /\ sampling = DefaultSampling

SpecAudit == InitAudit /\ [][Next]_vars

\* ============================================================= SpecSample
\* DataCollector.addEvent under the configurations of SamplingConfigs, with
\* an endpoint that answers every request.  admittedKinds and rejected log
\* what addEvent did with each kind of event.
InitSample ==
    /\ InitQueueIdle
    /\ InitRetryIdle
    /\ InitPipeIdle
    /\ audit = FALSE
    /\ InitErrIdle
    /\ InitHooksIdle
    /\ InitLifeIdle
    /\ InitTimedIdle
    /\ cfgMaxRetries = Some(1)
    /\ sampling \in SamplingConfigs

AddEventSampled(kind, draw) ==
    /\ addEvent(kind, draw)
    /\ admittedKinds' = IF nextId' # nextId
                        THEN admittedKinds \cup {kind} ELSE admittedKinds
    /\ rejected' = IF nextId' # nextId THEN rejected ELSE rejected \cup {kind}

NextSample ==
    \/ Start
    \/ Stop
    \/ \E kind \in Kinds, draw \in Draws : AddEventSampled(kind, draw)
    \/ DebounceFire
    \/ ThrottleRelease
    \/ \E s \in Slots, j \in 1..MaxBatches : PostResult(s, j, TRUE)
    \/ \E s \in Slots : Resume(s)

SpecSample == InitSample /\ [][NextSample]_vars

\* ================================================================ SpecErr
\* ErrorCollector: start, stop, the window.onerror handler, the document
\* 'error' listener, captureMessage and collect.  Strings are sequences of
\* UTF-16 code units.
Str_Boom == <<66, 111, 111, 109>>
Str_Bang == <<66, 97, 110, 103>>
Str_NetErr == <<32593, 32476, 38169, 35823>>
Str_FailedImg == <<70, 97, 105, 108, 101, 100, 32, 116, 111, 32, 108, 111, 97, 100, 32, 105, 109, 103, 58, 32, 97, 46, 112, 110, 103>>
Str_appjs == <<97, 112, 112, 46, 106, 115>>
Str_apng == <<97, 46, 112, 110, 103>>
Str_undefined == <<117, 110, 100, 101, 102, 105, 110, 101, 100>>

\* String(n) of a non-negative integer
RECURSIVE digits(_)
digits(n) ==
    IF n < 10 THEN <<48 + n>> ELSE Append(digits(n \div 10), 48 + (n % 10))

\* `${v}` of an optional string, and of an optional number
showStr(v) == IF v = Undefined THEN Str_undefined ELSE v[1]

showNum(v) == IF v = Undefined THEN Str_undefined ELSE digits(v[1])

\* the base64 digits 0..63 of a byte string, 64 standing for the pad '='
RECURSIVE base64(_)
base64(bytes) ==
    IF Len(bytes) = 0 THEN << >>
    ELSE IF Len(bytes) = 1
    THEN <<bytes[1] \div 4, (bytes[1] % 4) * 16, 64, 64>>
    ELSE IF Len(bytes) = 2
    THEN <<bytes[1] \div 4,
           (bytes[1] % 4) * 16 + (bytes[2] \div 16),
           (bytes[2] % 16) * 4,
           64>>
    ELSE <<bytes[1] \div 4,
           (bytes[1] % 4) * 16 + (bytes[2] \div 16),
           (bytes[2] % 16) * 4 + (bytes[3] \div 64),
           bytes[3] % 64>> \o base64(SubSeq(bytes, 4, Len(bytes)))

\* window.btoa: throws InvalidCharacterError on a code unit above 255
btoa(str) ==
    IF \E i \in 1..Len(str) : str[i] > 255
    THEN [threw |-> TRUE, value |-> << >>]
    ELSE [threw |-> FALSE, value |-> base64(str)]

\* the digits of A-Z, a-z and 0-9; '+' is 62, '/' is 63
isAlnumDigit(d) == d < 62

FingerprintLength == 16

generateErrorFingerprint(error) ==
    LET key == error.message \o <<58>> \o showStr(error.fileName) \o <<58>>
                 \o showNum(error.lineNumber) \o <<58>>
                 \o showNum(error.columnNumber)
        enc == btoa(key)
    IN  IF enc.threw THEN enc
        ELSE [threw |-> FALSE,
              value |-> slice(SelectSeq(enc.value, isAlnumDigit), 0,
                              FingerprintLength)]

\* ErrorCollector.createErrorEvent: throws when the fingerprint does
createErrorEvent(params) ==
    LET fp == generateErrorFingerprint(params)
    IN  [threw |-> fp.threw, error |-> params, fingerprint |-> fp.value]

addErrorEvent_dropNewest(st, errorEvent) ==
    IF errorEvent.fingerprint \in st.fingerprints THEN st
    ELSE IF Len(st.buffer) >= maxErrorsPerSession THEN st
    ELSE [buffer |-> Append(st.buffer, errorEvent),
          fingerprints |-> st.fingerprints \cup {errorEvent.fingerprint},
          log |-> Append(st.log, errorEvent)]

\* ErrorCollector.addErrorEvent on st = [buffer, fingerprints, log]
addErrorEvent(st, errorEvent) ==
    IF errorEvent.fingerprint \in st.fingerprints THEN st
    ELSE LET kept == IF Len(st.buffer) >= maxErrorsPerSession
                     THEN Tail(st.buffer) ELSE st.buffer
         IN  [buffer |-> Append(kept, errorEvent),
              fingerprints |-> st.fingerprints \cup {errorEvent.fingerprint},
              log |-> Append(st.log, errorEvent)]

\* a handler's createErrorEvent followed by addErrorEvent; a throw ends the
\* handler before addErrorEvent
handleError(st, params) ==
    LET ev == createErrorEvent(params)
    IN  IF ev.threw THEN st
        ELSE addErrorEvent(st, [error |-> ev.error, fingerprint |-> ev.fingerprint])

\* the same, once per listener added to document
RECURSIVE handleErrorTimes(_, _, _)
handleErrorTimes(st, params, n) ==
    IF n = 0 THEN st
    ELSE handleErrorTimes(handleError(st, params), params, n - 1)

ErrNow == [buffer |-> errorBuffer, fingerprints |-> errorFingerprints,
           log |-> errLog]

ErrBecomes(st) ==
    /\ errorBuffer' = st.buffer
    /\ errorFingerprints' = st.fingerprints
    /\ errLog' = st.log

\* what window.onerror is called with for the uncaught errors of the model
ScriptErrors ==
    { [message |-> m, fileName |-> Some(Str_appjs),
       lineNumber |-> Some(l), columnNumber |-> Some(3)] :
         m \in {Str_Boom, Str_Bang, Str_NetErr}, l \in {10, 11} }

\* what the document 'error' listener passes to createErrorEvent
ResourceErrors ==
    { [message |-> Str_FailedImg, fileName |-> Some(Str_apng),
       lineNumber |-> Undefined, columnNumber |-> Undefined] }

\* what captureMessage(message) passes to createErrorEvent
MessageErrors ==
    { [message |-> m, fileName |-> Undefined,
       lineNumber |-> Undefined, columnNumber |-> Undefined] :
         m \in {Str_Boom, Str_NetErr} }

InitErr ==
    /\ InitQueueIdle
    /\ InitRetryIdle
    /\ InitPipeIdle
    /\ audit = FALSE
    /\ InitErrIdle
    /\ InitHooksIdle
    /\ InitLifeIdle
    /\ InitTimedIdle
    /\ cfgMaxRetries = Some(DefaultMaxRetries)
    /\ sampling = DefaultSampling

\* ErrorCollector.start
\* saved || null
orNull(saved) ==
    IF saved = Undefined \/ saved[1] = Null THEN Null ELSE saved[1]

\* what start and stop of the ErrorCollector leave alone
errRest == <<queueVars, configVars, rb, rlog, pipeVars, failedItem, timedVars,
             netVars, sdkVars, capVars, apartVars>>

ErrStart ==
    /\ ~errRunning
    /\ resourceListeners < MaxListeners
    /\ errRunning' = TRUE
    /\ originalErrorHandler' = Some(wOnerror)
    /\ wOnerror' = SdkFn
    /\ originalUnhandledRejectionHandler' = Some(wOnrejection)
    /\ wOnrejection' = SdkFn
    /\ resourceListeners' = resourceListeners + 1
    /\ hooksBefore' = Some([onerror |-> wOnerror,
                            onunhandledrejection |-> wOnrejection])
    /\ lastCall' = recorded(lastCall, Call("ErrorCollector.start", FALSE, "none", 0))
    /\ UNCHANGED <<errorBuffer, errorFingerprints, errLog, errTriggered>>
    /\ UNCHANGED errRest

\* ErrorCollector.stop: window.onerror is restored, the document listener stays
ErrStop ==
    /\ errRunning
    /\ errRunning' = FALSE
    /\ wOnerror' = orNull(originalErrorHandler)
    /\ wOnrejection' = orNull(originalUnhandledRejectionHandler)
    /\ lastCall' = recorded(lastCall, Call("ErrorCollector.stop", FALSE, "none", 0))
    /\ UNCHANGED <<resourceListeners, errorBuffer, errorFingerprints, errLog,
                   errTriggered, originalErrorHandler,
                   originalUnhandledRejectionHandler, hooksBefore>>
    /\ UNCHANGED errRest

\* an uncaught error reaches window.onerror while it is the collector's
OnError(params) ==
    /\ errRunning
    /\ errTriggered' = errTriggered \cup {params}
    /\ ErrBecomes(handleError(ErrNow, params))
    /\ UNCHANGED <<errRunning, resourceListeners>>
    /\ UNCHANGED <<queueVars, retryVars, pipeVars, failedItem, timedVars>>

\* a resource fails to load: every listener added to document runs
ResourceError(params) ==
    /\ resourceListeners > 0
    /\ errTriggered' = errTriggered \cup {params}
    /\ ErrBecomes(handleErrorTimes(ErrNow, params, resourceListeners))
    /\ UNCHANGED <<errRunning, resourceListeners>>
    /\ UNCHANGED <<queueVars, retryVars, pipeVars, failedItem, timedVars>>

\* ErrorCollector.captureMessage(message)
CaptureMessage(params) ==
    /\ errRunning
    /\ errTriggered' = errTriggered \cup {params}
    /\ ErrBecomes(handleError(ErrNow, params))
    /\ UNCHANGED <<errRunning, resourceListeners>>
    /\ UNCHANGED <<queueVars, retryVars, pipeVars, failedItem, timedVars>>

\* ErrorCollector.collect
ErrCollect ==
    /\ errorBuffer' = << >>
    /\ UNCHANGED <<errRunning, resourceListeners, errorFingerprints, errLog,
                   errTriggered>>
    /\ UNCHANGED <<queueVars, retryVars, pipeVars, failedItem, timedVars>>

NextErr ==
    \/ ErrStart
    \/ ErrStop
    \/ \E params \in ScriptErrors : OnError(params)
    \/ \E params \in ResourceErrors : ResourceError(params)
    \/ \E params \in MessageErrors : CaptureMessage(params)
    \/ ErrCollect

SpecErr == InitErr /\ [][NextErr]_vars

\* ============================================================== SpecTimed
\* addEvent with the debounce, throttle and scheduleFlush timeouts on a clock
\* that advances Tick ms at a time, for a collector with the default queue
\* capacity and batch size.  Up to NonErrors non-error events are admitted
\* within BurstWindow of the first one, then one error event.  posted logs
\* each request HTTPTransport.send issues; the responses change neither the
\* queue nor the timeouts and are left out.
BurstWindow == 2 * Tick

\* a timeout with ms left after the clock advanced by Tick
countdown(t) ==
    IF t = Undefined THEN t
    ELSE IF t[1] > Tick THEN Some(t[1] - Tick) ELSE Some(0)

\* an elapsed time after the clock advanced by Tick, kept below limit + Tick
elapse(t, limit) ==
    IF t = Undefined THEN t
    ELSE IF t[1] > limit THEN t ELSE Some(t[1] + Tick)

due(t) == t # Undefined /\ t[1] = 0

throttledCall_never(t) == FALSE

\* the function throttle() returns calls func at once unless inThrottle
throttledCall(t) == t = Undefined

\* DataCollector.flush by trigger `by`, on st = [queue, posted]: drain, then
\* HTTPTransport.send, which issues one request per batch
timedFlush(st, by) ==
    LET events == drainTaken(st.queue)
        cb == createBatchesFrom(events, 0, DefaultBatchSize)
    IN  [queue |-> drainRest(st.queue),
         posted |-> st.posted \o
                      [j \in 1..Len(cb) |-> [events |-> cb[j], by |-> by]]]

TimedNow == [queue |-> queue, posted |-> posted]

TimedBecomes(st) ==
    /\ queue' = st.queue
    /\ posted' = st.posted

InitTimed ==
    /\ InitQueueIdle
    /\ InitRetryIdle
    /\ InitPipeIdle
    /\ audit = FALSE
    /\ InitErrIdle
    /\ InitHooksIdle
    /\ InitLifeIdle
    /\ InitTimedIdle
    /\ cfgMaxRetries = Some(DefaultMaxRetries)
    /\ sampling = DefaultSampling

timedRest == <<lastOp, retryVars, errVars, sampleVars, sends, failedItem,
               debouncePending, inThrottle, acked, beaconed, beaconCalls, evicted, handed,
               lastDone, lastTask, spillCapped>>

\* DataCollector.start with nothing stored: scheduleFlush sets the timeout
TimedStart ==
    /\ ~isStarted
    /\ isStarted' = TRUE
    /\ flushTimer' = TRUE
    /\ tPeriodic' = Some(DefaultFlushInterval)
    /\ UNCHANGED <<queue, nextId, tDebounce, tThrottle, elapsedFirst,
                   elapsedError, errId, burstSpan, debounceAt, posted>>
    /\ UNCHANGED timedRest

\* the clock advances; a timeout that is due fires first
TimedTick ==
    /\ isStarted
    /\ ~due(tDebounce) /\ ~due(tThrottle) /\ ~due(tPeriodic)
    /\ tDebounce' = countdown(tDebounce)
    /\ tThrottle' = countdown(tThrottle)
    /\ tPeriodic' = countdown(tPeriodic)
    /\ elapsedFirst' = elapse(elapsedFirst, BurstWindow)
    /\ elapsedError' = elapse(elapsedError, debounceWait)
    /\ UNCHANGED <<queue, nextId, isStarted, flushTimer, errId, burstSpan,
                   debounceAt, posted>>
    /\ UNCHANGED timedRest

\* DataCollector.addEvent of an event that passes sampling
TimedAdmit(kind) ==
    /\ isStarted
    /\ errId = 0
    /\ kind # "error" => nextId <= NonErrors
    /\ elapsedFirst # Undefined => elapsedFirst[1] <= BurstWindow
    /\ nextId' = nextId + 1
    /\ elapsedFirst' = IF elapsedFirst = Undefined THEN Some(0) ELSE elapsedFirst
    /\ LET queued == [TimedNow EXCEPT
                        !.queue = enqueueAt(queue, nextId, QueueCapacity)]
       IN  IF kind = "error"
           THEN /\ tDebounce' = Some(debounceWait)
                /\ errId' = nextId
                /\ elapsedError' = Some(0)
                /\ burstSpan' = elapsedFirst'
                /\ TimedBecomes(queued)
                /\ UNCHANGED tThrottle
           ELSE /\ IF throttledCall(tThrottle)
                   THEN /\ TimedBecomes(timedFlush(queued, "throttle"))
                        /\ tThrottle' = Some(throttleLimit)
                   ELSE /\ TimedBecomes(queued)
                        /\ UNCHANGED tThrottle
                /\ UNCHANGED <<tDebounce, errId, elapsedError, burstSpan>>
    /\ UNCHANGED <<isStarted, flushTimer, tPeriodic, debounceAt>>
    /\ UNCHANGED timedRest

\* the debounce timeout fires
TimedDebounceFire ==
    /\ due(tDebounce)
    /\ tDebounce' = Undefined
    /\ debounceAt' = elapsedError
    /\ TimedBecomes(timedFlush(TimedNow, "debounce"))
    /\ UNCHANGED <<nextId, isStarted, flushTimer, tThrottle, tPeriodic,
                   elapsedFirst, elapsedError, errId, burstSpan>>
    /\ UNCHANGED timedRest

\* the throttle timeout fires
TimedThrottleRelease ==
    /\ due(tThrottle)
    /\ tThrottle' = Undefined
    /\ UNCHANGED <<queue, nextId, isStarted, flushTimer, tDebounce, tPeriodic,
                   elapsedFirst, elapsedError, errId, burstSpan, debounceAt,
                   posted>>
    /\ UNCHANGED timedRest

\* the scheduleFlush timeout fires: collectAndFlush, then scheduleFlush
TimedPeriodicFlush ==
    /\ due(tPeriodic)
    /\ isStarted
    /\ TimedBecomes(IF Len(queue) > 0 THEN timedFlush(TimedNow, "periodic")
                    ELSE TimedNow)
    /\ tPeriodic' = Some(DefaultFlushInterval)
    /\ UNCHANGED <<nextId, isStarted, flushTimer, tDebounce, tThrottle,
                   elapsedFirst, elapsedError, errId, burstSpan, debounceAt>>
    /\ UNCHANGED timedRest

NextTimed ==
    \/ TimedStart
    \/ TimedTick
    \/ \E kind \in {"performance", "error"} : TimedAdmit(kind)
    \/ TimedDebounceFire
    \/ TimedThrottleRelease
    \/ TimedPeriodicFlush

SpecTimed == InitTimed /\ [][NextTimed]_vars

\* ================================================================= claims

\* C1: under any sequence of enqueue, dequeue, drain, drain(n) and clear the
\* queue never holds more than maxSize events, and every enqueue leaves the
\* new event at the tail: on a full queue the head is the one removed, on a
\* queue with room nothing is removed.
C1_QueueBoundedOldestDrop ==
    [][/\ Len(queue') <= maxSize
       /\ lastOp'.op = "enqueue" =>
            /\ Last(queue') = lastOp'.arg
            /\ Len(queue) = maxSize => queue' = Append(Tail(queue), lastOp'.arg)
            /\ Len(queue) < maxSize => queue' = Append(queue, lastOp'.arg)]_vars

\* C1 witness: an enqueue on a full queue dropped the head, which is not the
\* event just enqueued, and that event is at the tail.
C1_Witness ==
    /\ lastOp.op = "enqueue"
    /\ lastOp.dropped # {}
    /\ lastOp.arg \notin lastOp.dropped
    /\ Len(queue) = maxSize
    /\ Last(queue) = lastOp.arg

\* C2: a batch is requested at most R+1 times, no request follows an ok
\* response, retry k is preceded by a wait of 1000 * 2^(k-1) ms, and with the
\* default R a batch whose every request fails ends after exactly 4 requests
\* and waits of 1000, 2000 and 4000 ms.
C2_RetryBackoff ==
    LET R == retryLimit(cfgMaxRetries)
    IN  /\ rb.posts <= R + 1
        /\ Len(rlog) <= rb.posts
        /\ \A k \in 1..(Len(rlog) - 1) : rlog[k] # "ok"
        /\ rb.st = "ok" => rlog[Len(rlog)] = "ok" /\ rb.posts = Len(rlog)
        /\ Len(rb.waits) <= R
        /\ \A k \in 1..Len(rb.waits) : rb.waits[k] = 1000 * Pow2(k - 1)
        /\ rb.st # "sleep" => Len(rb.waits) = rb.posts - 1
        /\ rb.st = "sleep" => Len(rb.waits) = rb.posts
        /\ rb.st = "failed" => rb.posts = R + 1 /\ Len(rlog) = R + 1
        /\ (cfgMaxRetries = Undefined /\ rb.st = "failed") =>
              /\ rb.posts = 4
              /\ rb.waits = <<1000, 2000, 4000>>

\* C2 witness: with the default limit, four requests answered HTTP 500, the
\* batch has failed after waits of 1 s, 2 s and 4 s.
C2_Witness ==
    /\ cfgMaxRetries = Undefined
    /\ rlog = <<"http500", "http500", "http500", "http500">>
    /\ rb.st = "failed"
    /\ rb.posts = 4
    /\ rb.waits = <<1000, 2000, 4000>>

\* the stored array of the failed_events item
Stored == getStoredFailedEvents(failedItem)

\* batch j of send s runs out of retries in this step
FailsNow(s, j) ==
    /\ j \in 1..Len(sends[s].batches)
    /\ sends[s].batches[j].st = "post"
    /\ j \in 1..Len(sends'[s].batches)
    /\ sends'[s].batches[j].st = "failed"

\* the caller of send s resumes in this step
ResumesNow(s) == Resolved(sends[s]) /\ sends'[s] = NoSend

C4_ReplayKeepsUndelivered ==
    [][\A s \in Slots :
         ResumesNow(s) /\ sends[s].caller = "retry" =>
            IF FailedEvents(sends[s].batches) = {}
            THEN getStoredFailedEvents(failedItem') = << >>
            ELSE FailedEvents(sends[s].batches) \ acked'
                    \subseteq Range(getStoredFailedEvents(failedItem'))
      ]_vars

\* C5: a send call one of whose batches ran out of retries reports failure
\* (a rejected promise) to its caller.
C5_FailureSurfaced ==
    lastDone.failed => lastDone.outcome = "rejected"

\* events in a batch of a send call that has not settled
InSender ==
    UNION {UNION {Range(sends[s].batches[j].events) :
                    j \in {k \in 1..Len(sends[s].batches) :
                             ~Settled(sends[s].batches[k])}} : s \in Slots}

\* C6: every admitted event is in the queue, in flight in a sender, in the
\* stored array, acknowledged by a successful POST, accepted by the beacon,
\* or was evicted by an enqueue on a full queue.
C6_NeverDiscarded ==
    \A e \in 1..(nextId - 1) :
        \/ e \in Range(queue)
        \/ e \in InSender
        \/ e \in Range(Stored)
        \/ e \in acked
        \/ e \in beaconed
        \/ e \in evicted

\* the rate config.sampling configures for a kind of event, in 1/1000
configuredRate(kind) == sampling[samplingKey(kind)]

\* C7: addEvent never enqueues an event of a kind whose configured rate is 0
\* and never drops an event of a kind whose configured rate is 1, whatever
\* the kind and the random draw.
C7_RateZeroAndOne ==
    \A kind \in Kinds :
        /\ configuredRate(kind) = 0 => kind \notin admittedKinds
        /\ configuredRate(kind) = 1000 => kind \notin rejected

\* C8: no two events pushed to the error buffer in a session have the same
\* fingerprint, whatever collect, overflow and stop/start did in between, and
\* every error handed to the collector, once or more often, has exactly one
\* event in the session.
C8_OneEventPerError ==
    /\ \A i, j \in 1..Len(errLog) :
          i < j => errLog[i].fingerprint # errLog[j].fingerprint
    /\ \A params \in errTriggered :
          Cardinality({i \in 1..Len(errLog) : errLog[i].error = params}) = 1

\* the events with identities a..b, in order
idRange(a, b) == [i \in 1..(b - a + 1) |-> a + i - 1]

\* NonErrors non-error events and then the error event were admitted within
\* BurstWindow
Burst == errId = NonErrors + 1 /\ burstSpan[1] <= BurstWindow

\* C9 as stated: in such a burst no throttled flush has fired when the error
\* is admitted, the debounced flush runs debounceWait (to the step of the
\* clock) after the error, and one request of it carries all the events.
C9_SinglePost ==
    Burst =>
       /\ \A i \in 1..Len(posted) : posted[i].by # "throttle"
       /\ debounceAt # Undefined =>
            /\ debounceAt[1] >= debounceWait
            /\ debounceAt[1] < debounceWait + Tick
            /\ \E i \in 1..Len(posted) :
                  posted[i] = [events |-> idRange(1, NonErrors + 1),
                               by |-> "debounce"]

\* C9 amended: in such a burst on a freshly started collector the throttled
\* flush fired once, at the first admission, and its request carried the
\* first event alone; the debounced flush runs debounceWait (to the step of
\* the clock) after the error, not before, and unless the periodic flush sent
\* events in between, its one request carries the other events of the burst.
C9_LeadingThrottle ==
    Burst =>
       /\ Len(posted) >= 1
       /\ posted[1] = [events |-> <<1>>, by |-> "throttle"]
       /\ \A i \in 2..Len(posted) : posted[i].by # "throttle"
       /\ tDebounce # Undefined => debounceAt = Undefined
       /\ debounceAt = Undefined =>
            \A i \in 1..Len(posted) : posted[i].by # "debounce"
       /\ debounceAt # Undefined =>
            /\ debounceAt[1] >= debounceWait
            /\ debounceAt[1] < debounceWait + Tick
            /\ (\A i \in 1..Len(posted) : posted[i].by # "periodic") =>
                  posted = <<[events |-> <<1>>, by |-> "throttle"],
                             [events |-> idRange(2, NonErrors + 1),
                              by |-> "debounce"]>>

\* the burst, the debounced flush has run and no periodic flush intervened
C9_Witness ==
    /\ Burst
    /\ debounceAt = Some(debounceWait)
    /\ posted = <<[events |-> <<1>>, by |-> "throttle"],
                  [events |-> idRange(2, NonErrors + 1), by |-> "debounce"]>>

\* send call s was started by flush in this step
FlushStartsNow(s) ==
    sends[s] = NoSend /\ sends'[s] # NoSend /\ sends'[s].caller = "flush"

\* C10: a flush leaves none of the events it hands to the sender in the
\* queue; the events of a send call in flight never change; an event
\* admitted while a flush's send call is in flight joins none of the calls
\* in flight and is either queued or handed to a new flush; no event is
\* handed to the sender by two flushes.
C10_FlushDrainsFirst ==
    [][/\ \A s \in Slots :
            FlushStartsNow(s) =>
               Range(Flatten(sends'[s].batches)) \cap Range(queue') = {}
       /\ \A s \in Slots :
            sends[s] # NoSend /\ sends'[s] # NoSend =>
               Flatten(sends'[s].batches) = Flatten(sends[s].batches)
       /\ (nextId' = nextId + 1 /\ \E s \in Slots : sends[s].caller = "flush") =>
            \/ nextId \in Range(queue')
            \/ \E t \in Slots :
                  FlushStartsNow(t) /\ nextId \in Range(Flatten(sends'[t].batches))
       /\ \A e \in Ids : handed'[e] <= 1
      ]_vars

\* two flushes overlap: the send call of one is waiting to retry while the
\* send call of the other, with a later event, has its request in flight
C10_Witness ==
    \E s, t \in Slots :
        /\ s # t
        /\ sends[s].caller = "flush" /\ sends[t].caller = "flush"
        /\ sends[s].batches[1].st = "sleep"
        /\ sends[t].batches[1].st = "post"
        /\ \A e \in Range(Flatten(sends[s].batches)) \cup
                    Range(Flatten(sends[t].batches)) : handed[e] = 1
        /\ Range(Flatten(sends[s].batches)) \cap
              Range(Flatten(sends[t].batches)) = {}


\* C11: when visibilitychange fires with the page hidden and the queue holds
\* n > 0 events, the queue is emptied and exactly one beacon send carrying
\* all n events is attempted.
C11_HiddenBeacons ==
    [][(lastTask' = "visibilitychange" /\ Len(queue) > 0) =>
          /\ queue' = << >>
          /\ beaconCalls' = Append(beaconCalls, queue)
      ]_vars

\* C12: when pagehide or beforeunload fires on a non-empty queue, the queue
\* is emptied, all its events are passed to the beacon sender in one beacon
\* call and none of them to the HTTP sender.
C12_UnloadBeacons ==
    [][(lastTask' \in {"pagehide", "beforeunload"} /\ Len(queue) > 0) =>
          /\ queue' = << >>
          /\ beaconCalls' = Append(beaconCalls, queue)
          /\ sends' = sends
      ]_vars

\* ------------------------------------------------------------- lifecycle
\* MonitorSDK with the default features (performance, errors and behavior
\* capture, no replay) on a page with PerformanceObserver, within one flush
\* interval: no scheduleFlush timeout fires. The capture components are
\* reached through DataCollector.getErrorCollector, getBehaviorCollector and
\* getPerformanceCollector. The timing data PerformanceCollector reads at
\* start is outside the model.

\* what the lifecycle calls leave alone in the pipeline
pipeRest == <<sampleVars, nextId, debouncePending, inThrottle, acked, beaconed,
              beaconCalls, evicted, lastDone, lastTask, spillCapped>>

\* what start and stop of BehaviorCollector and PerformanceCollector, and
\* the calls of the page, leave alone
capRest == <<queueVars, configVars, rb, rlog, pipeVars, failedItem, timedVars,
             errVars, hookVars, netVars, sdkVars, apartVars>>

\* a listener as the event target keeps it: addEventListener ignores a second
\* registration of the same type, callback and capture flag
Listener(target, type, capture, handler) ==
    [target |-> target, type |-> type, capture |-> capture, handler |-> handler]

\* the ten addListener calls of setupEventListeners at its n-th run
\* (trackMouseMove is off): a handler kept in a field is the same function at
\* every run (0), a handler made by bind is a new function of run n
behaviorListeners(n) ==
    { Listener("document", "click", FALSE, <<"behavior", n>>),
      Listener("window", "scroll", FALSE, <<"behavior", 0>>),
      Listener("document", "scroll", TRUE, <<"behavior", 0>>),
      Listener("document", "input", TRUE, <<"behavior", 0>>),
      Listener("document", "change", TRUE, <<"behavior", n>>),
      Listener("window", "popstate", FALSE, <<"behavior", n>>),
      Listener("document", "focus", TRUE, <<"behavior", n>>),
      Listener("document", "blur", TRUE, <<"behavior", n>>),
      Listener("document", "visibilitychange", FALSE, <<"behavior", n>>),
      Listener("window", "resize", FALSE, <<"behavior", n>>) }

\* the entry addListener pushes on this.listeners: no capture flag
pushed(l) == [element |-> l.target, event |-> l.type, handler |-> l.handler]

\* element.removeEventListener(event, handler) for every entry of ls: without
\* options it names the listener with capture = false
removeEventListeners(dom, ls) ==
    { l \in dom : ~(l.capture = FALSE /\ pushed(l) \in ls) }

\* BehaviorCollector.start
BehStart ==
    /\ ~behRunning
    /\ behStarts < MaxStarts
    /\ behRunning' = TRUE
    /\ behStarts' = behStarts + 1
    /\ domListeners' = domListeners \cup behaviorListeners(behStarts + 1)
    /\ behListeners' = behListeners \cup
                          {pushed(l) : l \in behaviorListeners(behStarts + 1)}
    /\ pushStateWraps' = pushStateWraps + 1
    /\ replaceStateWraps' = replaceStateWraps + 1
    /\ lastCall' = recorded(lastCall, Call("BehaviorCollector.start", FALSE, "none", 0))
    /\ UNCHANGED <<observers, behBufferLen, perfRunning, perfObserver, perfStarts>>
    /\ UNCHANGED capRest

\* BehaviorCollector.stop
BehStop ==
    /\ behRunning
    /\ behRunning' = FALSE
    /\ domListeners' = removeEventListeners(domListeners, behListeners)
    /\ behListeners' = {}
    /\ lastCall' = recorded(lastCall, Call("BehaviorCollector.stop", FALSE, "none", 0))
    /\ UNCHANGED <<observers, behStarts, behBufferLen, pushStateWraps,
                   replaceStateWraps, perfRunning, perfObserver, perfStarts>>
    /\ UNCHANGED capRest

\* addBehaviorEvent, n times
addBehaviorEvents(len, n) ==
    IF len + n > maxEventsPerSession THEN maxEventsPerSession ELSE len + n

\* the page calls history.pushState: every closure around the native
\* function calls handleHistoryChange once
PushState ==
    /\ behBufferLen' = addBehaviorEvents(behBufferLen, pushStateWraps)
    /\ lastCall' = recorded(lastCall, Call("history.pushState", FALSE, "none", pushStateWraps))
    /\ UNCHANGED <<domListeners, observers, behRunning, behListeners, behStarts,
                   pushStateWraps, replaceStateWraps, perfRunning, perfObserver,
                   perfStarts>>
    /\ UNCHANGED capRest

\* the page calls history.replaceState
ReplaceState ==
    /\ behBufferLen' = addBehaviorEvents(behBufferLen, replaceStateWraps)
    /\ lastCall' = recorded(lastCall, Call("history.replaceState", FALSE, "none", replaceStateWraps))
    /\ UNCHANGED <<domListeners, observers, behRunning, behListeners, behStarts,
                   pushStateWraps, replaceStateWraps, perfRunning, perfObserver,
                   perfStarts>>
    /\ UNCHANGED capRest

\* BehaviorCollector.collect
BehCollect ==
    /\ behBufferLen > 0
    /\ behBufferLen' = 0
    /\ lastCall' = recorded(lastCall, Call("BehaviorCollector.collect", FALSE, "none", 0))
    /\ UNCHANGED <<domListeners, observers, behRunning, behListeners, behStarts,
                   pushStateWraps, replaceStateWraps, perfRunning, perfObserver,
                   perfStarts>>
    /\ UNCHANGED capRest

\* a PerformanceObserver made at the n-th start; held is whether
\* this.observer names it
Observer(entryType, n, held) ==
    [entryType |-> entryType, run |-> n, held |-> held]

\* collectPaintTiming, then the three observePerformanceEntry calls of
\* collectWebVitals and observeLayoutShift
performanceObservers(n) ==
    { Observer("paint", n, TRUE),
      Observer("paint", n, FALSE),
      Observer("largest-contentful-paint", n, FALSE),
      Observer("layout-shift", n, FALSE) }

\* observeFirstInputDelay and setupPageUnloadCollection
performanceListeners(n) ==
    { Listener("document", type, TRUE, <<"performance", n>>) :
        type \in {"mousedown", "keydown", "touchstart", "pointerdown"} }
    \cup
    { Listener("window", "beforeunload", FALSE, <<"performance", n>>),
      Listener("window", "pagehide", FALSE, <<"performance", n>>),
      Listener("document", "visibilitychange", FALSE, <<"performance", n>>) }

\* PerformanceCollector.start
PerfStart ==
    /\ ~perfRunning
    /\ perfStarts < MaxStarts
    /\ perfRunning' = TRUE
    /\ perfStarts' = perfStarts + 1
    /\ perfObserver' = Some(Observer("paint", perfStarts + 1, TRUE))
    /\ observers' = observers \cup performanceObservers(perfStarts + 1)
    /\ domListeners' = domListeners \cup performanceListeners(perfStarts + 1)
    /\ lastCall' = recorded(lastCall, Call("PerformanceCollector.start", FALSE, "none", 0))
    /\ UNCHANGED <<behRunning, behListeners, behStarts, behBufferLen,
                   pushStateWraps, replaceStateWraps>>
    /\ UNCHANGED capRest

\* PerformanceCollector.stop: this.observer?.disconnect()
PerfStop ==
    /\ perfRunning
    /\ perfRunning' = FALSE
    /\ observers' = IF perfObserver = Undefined THEN observers
                    ELSE observers \ {perfObserver[1]}
    /\ lastCall' = recorded(lastCall, Call("PerformanceCollector.stop", FALSE, "none", 0))
    /\ UNCHANGED <<domListeners, behRunning, behListeners, behStarts,
                   behBufferLen, pushStateWraps, replaceStateWraps,
                   perfObserver, perfStarts>>
    /\ UNCHANGED capRest

\* the loops of DataCollector.start and stop test collector.isRunning and
\* then call collector.isRunning(): the field of that name hides the method,
\* so for a collector whose field holds true the call throws a TypeError
collectorThrows == perfRunning \/ errRunning \/ behRunning

\* NetworkErrorCollector.start: interceptFetch, interceptXHR
netStart ==
    /\ IF wFetch = Absent
       THEN UNCHANGED <<wFetch, originalFetch>>
       ELSE /\ originalFetch' = Some(wFetch)
            /\ wFetch' = SdkFn
    /\ originalXHROpen' = Some(xhrOpen)
    /\ originalXHRSend' = Some(xhrSend)
    /\ xhrOpen' = SdkFn
    /\ xhrSend' = SdkFn
    /\ netBefore' = recorded(netBefore, Some([fetch |-> wFetch, open |-> xhrOpen,
                                              send |-> xhrSend]))

\* NetworkErrorCollector.stop
netStop ==
    /\ wFetch' = IF originalFetch # Undefined THEN originalFetch[1] ELSE wFetch
    /\ xhrOpen' = IF originalXHROpen # Undefined THEN originalXHROpen[1] ELSE xhrOpen
    /\ xhrSend' = IF originalXHRSend # Undefined THEN originalXHRSend[1] ELSE xhrSend
    /\ UNCHANGED <<originalFetch, originalXHROpen, originalXHRSend, netBefore>>

\* DataCollector.start
DcStart ==
    IF isStarted
    THEN UNCHANGED <<isStarted, netVars, flushTimer, orphanTimers, sends>>
    ELSE /\ isStarted' = TRUE
         /\ IF collectorThrows
            THEN UNCHANGED <<netVars, flushTimer, orphanTimers, sends>>
            ELSE /\ netStart
                 /\ flushTimer' = TRUE
                 /\ orphanTimers' = IF flushTimer THEN orphanTimers + 1
                                    ELSE orphanTimers
                 /\ sends' = retryFailedEvents(sends, failedItem)

\* DataCollector.stop
DcStop ==
    IF ~isStarted
    THEN UNCHANGED <<isStarted, netVars, flushTimer, queue, sends, handed>>
    ELSE /\ isStarted' = FALSE
         /\ IF collectorThrows
            THEN UNCHANGED <<netVars, flushTimer, queue, sends, handed>>
            ELSE /\ netStop
                 /\ flushTimer' = FALSE
                 /\ Becomes(flush(Now))

\* MonitorSDK.getStatus: the fields of the status the model holds
getStatus == [initialized |-> isInitialized, queueSize |-> Len(queue)]

SdkStart_reentrant ==
    /\ TaskBoundary
    /\ retryFits(sends, failedItem)
    /\ (~isInitialized /\ flushTimer) => orphanTimers < MaxOrphans
    /\ isInitialized' = TRUE
    /\ DcStart
    /\ lastCall' = recorded(lastCall,
                            IF ~isStarted /\ collectorThrows
                            THEN Call("MonitorSDK.start", TRUE, "none", 0)
                            ELSE Call("MonitorSDK.start", FALSE, "start", 0))
    /\ UNCHANGED <<queueVars, configVars, rb, rlog, failedItem, timedVars,
                   errVars, hookVars, capVars, apartVars, pipeRest, handed>>

\* MonitorSDK.start
SdkStart ==
    /\ TaskBoundary
    /\ retryFits(sends, failedItem)
    /\ (~isInitialized /\ flushTimer) => orphanTimers < MaxOrphans
    /\ IF isInitialized
       THEN /\ UNCHANGED <<isInitialized, isStarted, netVars, flushTimer,
                           orphanTimers, sends>>
            /\ lastCall' = recorded(lastCall, Call("MonitorSDK.start", FALSE, "none", 0))
       ELSE /\ isInitialized' = TRUE
            /\ DcStart
            /\ lastCall' = recorded(lastCall,
                                    IF ~isStarted /\ collectorThrows
                                    THEN Call("MonitorSDK.start", TRUE, "none", 0)
                                    ELSE Call("MonitorSDK.start", FALSE, "start", 0))
    /\ UNCHANGED <<queueVars, configVars, rb, rlog, failedItem, timedVars,
                   errVars, hookVars, capVars, apartVars, pipeRest, handed>>

\* MonitorSDK.stop; the audit marks an exception the catch clause logged
SdkStop ==
    /\ TaskBoundary
    /\ flushFits(Now)
    /\ IF ~isInitialized
       THEN /\ UNCHANGED <<isInitialized, isStarted, netVars, flushTimer, queue,
                           sends, handed>>
            /\ lastCall' = recorded(lastCall, Call("MonitorSDK.stop", FALSE, "none", 0))
       ELSE /\ isInitialized' = FALSE
            /\ DcStop
            /\ lastCall' = recorded(lastCall,
                                    IF isStarted /\ collectorThrows
                                    THEN Call("MonitorSDK.stop", TRUE, "none", 0)
                                    ELSE Call("MonitorSDK.stop", FALSE, "stop", 0))
    /\ UNCHANGED <<lastOp, configVars, rb, rlog, failedItem, timedVars, errVars,
                   hookVars, orphanTimers, capVars, apartVars, pipeRest>>

\* a page with or without error handlers of its own, with or without fetch
InitLife ==
    /\ InitQueueIdle
    /\ InitRetryIdle
    /\ InitPipeIdle
    /\ audit = TRUE
    /\ InitErrIdle
    /\ wOnerror \in {Null, PageFn}
    /\ wOnrejection = IF wOnerror = Null THEN Null ELSE PageFn2
    /\ wFetch \in {Native, Absent}
    /\ sessionStorageIs = "ok"
    /\ localStorageIs = "ok"
    /\ InitLifeIdle
    /\ InitTimedIdle
    /\ cfgMaxRetries = Some(DefaultMaxRetries)
    /\ sampling = DefaultSampling

NextLife ==
    \/ SdkStart
    \/ SdkStop
    \/ ErrStart
    \/ ErrStop
    \/ BehStart
    \/ BehStop
    \/ PushState
    \/ ReplaceState
    \/ BehCollect
    \/ PerfStart
    \/ PerfStop

SpecLife == InitLife /\ [][NextLife]_vars


\* ---------------------------------------------------- SessionReplayCollector
\* The recorder as MonitorSDK.startReplay, stopReplay, pauseReplay and
\* resumeReplay drive it (features.replay set), with clicks on the document
\* and batches of DOM mutations as the page's events, on a clock of single
\* steps.

\* what the recorder leaves alone
replayRest == <<queueVars, configVars, rb, rlog, pipeVars, failedItem, timedVars,
                errVars, hookVars, netVars, sdkVars, sessVars, moreVars, behRunning,
                behListeners, behStarts, behBufferLen, pushStateWraps,
                replaceStateWraps, perfRunning, perfObserver, perfStarts>>

\* a ReplayRecord: its type, the type of its data, its timestamp
ReplayRecord(type, data, t) == [type |-> type, data |-> data, timestamp |-> t]

\* the nine addListener calls of setupEventListeners at its n-th run
\* (recordMouseMove is off); the throttled handlers are kept in fields
replayEventListeners(n) ==
    { Listener("document", "click", TRUE, <<"replay", n>>),
      Listener("document", "input", TRUE, <<"replay", n>>),
      Listener("document", "change", TRUE, <<"replay", n>>),
      Listener("window", "scroll", FALSE, <<"replay", 0>>),
      Listener("document", "scroll", TRUE, <<"replay", 0>>),
      Listener("window", "resize", FALSE, <<"replay", 0>>),
      Listener("document", "focus", TRUE, <<"replay", n>>),
      Listener("document", "blur", TRUE, <<"replay", n>>),
      Listener("document", "visibilitychange", FALSE, <<"replay", n>>) }

\* setupMutationObserver and setupIntersectionObserver
replayObserversOf(n) ==
    { Observer("mutation", n, TRUE), Observer("intersection", n, TRUE) }

\* the recorder and what it installed, as one value; admitted counts the
\* records a call pushes
ReplayNow ==
    [isRecording |-> isRecording, records |-> records,
     listeners |-> replayListeners, observers |-> replayObservers,
     dom |-> domListeners, connected |-> observers,
     stopped |-> stoppedByBudget, admitted |-> 0]

ReplayBecomes(rs) ==
    /\ isRecording' = rs.isRecording
    /\ records' = rs.records
    /\ replayListeners' = rs.listeners
    /\ replayObservers' = rs.observers
    /\ domListeners' = rs.dom
    /\ observers' = rs.connected
    /\ stoppedByBudget' = rs.stopped

\* SessionReplayCollector.cleanup
cleanup(rs) ==
    [rs EXCEPT !.dom = removeEventListeners(rs.dom, rs.listeners),
               !.listeners = {},
               !.connected = rs.connected \ rs.observers,
               !.observers = {}]

\* SessionReplayCollector.stopRecording
stopRecording(rs) ==
    IF ~rs.isRecording THEN rs
    ELSE cleanup([rs EXCEPT !.isRecording = FALSE])

\* SessionReplayCollector.addRecord: shift at the cap, push, then the test of
\* the time limit against records[0]
addRecord(rs, record) ==
    LET kept == IF Len(rs.records) >= maxRecordsPerSession
                THEN Tail(rs.records) ELSE rs.records
        pushedOn == [rs EXCEPT !.records = Append(kept, record),
                               !.admitted = @ + 1]
    IN  IF record.timestamp - pushedOn.records[1].timestamp > maxRecordTime
        THEN [stopRecording(pushedOn) EXCEPT !.stopped = TRUE]
        ELSE pushedOn

RECURSIVE addRecords(_, _, _)
\* records.forEach(record => this.addRecord(record)) for n records
addRecords(rs, record, n) ==
    IF n = 0 THEN rs ELSE addRecords(addRecord(rs, record), record, n - 1)

RECURSIVE deliver(_, _, _)
\* one DOM event reaches n listeners in turn; each tests isRecording
deliver(rs, record, n) ==
    IF n = 0 THEN rs
    ELSE deliver(IF rs.isRecording THEN addRecord(rs, record) ELSE rs,
                 record, n - 1)

\* SessionReplayCollector.startRecording; recordInitialState pushes the
\* snapshot on the emptied list
StartRecording ==
    /\ isRecording \/ recStarts < MaxStarts
    /\ IF isRecording
       THEN /\ UNCHANGED <<isRecording, records, replayListeners,
                           replayObservers, recStarts, domListeners, observers,
                           recordingFirst, stoppedByBudget>>
            /\ lastCall' = recorded(lastCall, Call("startRecording", FALSE, "none", 0))
       ELSE /\ isRecording' = TRUE
            /\ records' = <<ReplayRecord("dom", "fullSnapshot", clock)>>
            /\ recStarts' = recStarts + 1
            /\ domListeners' = domListeners \cup replayEventListeners(recStarts + 1)
            /\ replayListeners' = replayListeners \cup
                  {pushed(l) : l \in replayEventListeners(recStarts + 1)}
            /\ observers' = observers \cup replayObserversOf(recStarts + 1)
            /\ replayObservers' = replayObservers \cup replayObserversOf(recStarts + 1)
            /\ recordingFirst' = Some(clock)
            /\ stoppedByBudget' = FALSE
            /\ lastCall' = recorded(lastCall, Call("startRecording", FALSE, "none", 1))
    /\ UNCHANGED <<clock, lastCollected>>
    /\ UNCHANGED replayRest

\* SessionReplayCollector.stopRecording, called from outside
StopRecording ==
    /\ ReplayBecomes(stopRecording(ReplayNow))
    /\ lastCall' = recorded(lastCall, Call("stopRecording", FALSE, "none", 0))
    /\ UNCHANGED <<recStarts, clock, lastCollected, recordingFirst>>
    /\ UNCHANGED replayRest

PauseRecording_cleanup ==
    /\ ReplayBecomes(stopRecording(ReplayNow))
    /\ lastCall' = recorded(lastCall, Call("pauseRecording", FALSE, "none", 0))
    /\ UNCHANGED <<recStarts, clock, lastCollected, recordingFirst>>
    /\ UNCHANGED replayRest

\* SessionReplayCollector.pauseRecording
PauseRecording ==
    /\ isRecording' = FALSE
    /\ lastCall' = recorded(lastCall, Call("pauseRecording", FALSE, "none", 0))
    /\ UNCHANGED <<records, replayListeners, replayObservers, recStarts, clock,
                   lastCollected, recordingFirst, stoppedByBudget,
                   domListeners, observers>>
    /\ UNCHANGED replayRest

\* SessionReplayCollector.resumeRecording
ResumeRecording ==
    /\ isRecording' = TRUE
    /\ lastCall' = recorded(lastCall, Call("resumeRecording", FALSE, "none", 0))
    /\ UNCHANGED <<records, replayListeners, replayObservers, recStarts, clock,
                   lastCollected, recordingFirst, stoppedByBudget,
                   domListeners, observers>>
    /\ UNCHANGED replayRest

\* the click listeners of the recorder that the document holds
clickListeners ==
    { l \in domListeners : l.type = "click" /\ l.handler[1] = "replay" }

\* a click on the document: recordClick of every installed listener
Click ==
    /\ clickListeners # {}
    /\ LET rs == deliver(ReplayNow, ReplayRecord("input", "click", clock),
                         Cardinality(clickListeners))
       IN  /\ ReplayBecomes(rs)
           /\ lastCall' = recorded(lastCall, Call("click", FALSE, "none", rs.admitted))
    /\ UNCHANGED <<recStarts, clock, lastCollected, recordingFirst>>
    /\ UNCHANGED replayRest

\* a connected MutationObserver of the recorder delivers n mutations
Mutations(n) ==
    /\ \E o \in observers : o.entryType = "mutation"
    /\ LET rs == IF isRecording
                 THEN addRecords(ReplayNow,
                                 ReplayRecord("mutation", "childList", clock), n)
                 ELSE ReplayNow
       IN  /\ ReplayBecomes(rs)
           /\ lastCall' = recorded(lastCall, Call("mutations", FALSE, "none", rs.admitted))
    /\ UNCHANGED <<recStarts, clock, lastCollected, recordingFirst>>
    /\ UNCHANGED replayRest

\* SessionReplayCollector.collect; the audit keeps the type of events[0] of
\* the replay event it returns
ReplayCollect ==
    /\ lastCollected' = IF Len(records) = 0 THEN Undefined
                        ELSE Some([type |-> records[1].type, data |-> records[1].data])
    /\ records' = << >>
    /\ lastCall' = recorded(lastCall, Call("collect", FALSE, "none", 0))
    /\ UNCHANGED <<isRecording, replayListeners, replayObservers, recStarts,
                   clock, recordingFirst, stoppedByBudget, domListeners,
                   observers>>
    /\ UNCHANGED replayRest

\* time passes
ClockStep ==
    /\ clock < MaxClock
    /\ clock' = clock + 1
    /\ lastCall' = recorded(lastCall, Call("clock", FALSE, "none", 0))
    /\ UNCHANGED <<isRecording, records, replayListeners, replayObservers,
                   recStarts, lastCollected, recordingFirst, stoppedByBudget,
                   domListeners, observers>>
    /\ UNCHANGED replayRest

InitReplay ==
    /\ InitQueueIdle
    /\ InitRetryIdle
    /\ InitPipeIdle
    /\ audit = TRUE
    /\ InitErrIdle
    /\ InitHooksIdle
    /\ InitLifeIdle
    /\ InitTimedIdle
    /\ cfgMaxRetries = Some(DefaultMaxRetries)
    /\ sampling = DefaultSampling

NextReplay ==
    \/ StartRecording
    \/ StopRecording
    \/ PauseRecording
    \/ ResumeRecording
    \/ Click
    \/ \E n \in 1..MaxBatch : Mutations(n)
    \/ ReplayCollect
    \/ ClockStep

SpecReplay == InitReplay /\ [][NextReplay]_vars

\* ------------------------------------------------------- session and user id
\* DataCollector.getSessionId as setupCollectors and MonitorSDK.getStatus call
\* it, and setUser and clearUser, on a browser whose sessionStorage works, is
\* missing (browserSupport.sessionStorage is false) or refuses every write
\* (setItem throws, as with an exhausted quota). localStorage works.

sessRest == <<queueVars, configVars, rb, rlog, pipeVars, failedItem, timedVars,
              errVars, hookVars, netVars, sdkVars, capVars, replayVars,
              moreVars>>

Users == {"u1", "u2", "u3"}

\* SessionStorage.getItem on a SessionStorage made for this call: its
\* fallback MemoryStorage is new and empty
sessionGetItem ==
    IF sessionStorageIs = "absent" THEN Undefined ELSE sessionItem

\* SessionStorage.setItem on the same object: what the browser's store holds
\* afterwards; the fallback that takes the value otherwise is dropped with
\* the object
sessionSetItem(value) ==
    IF sessionStorageIs = "ok" THEN Some(value) ELSE sessionItem

\* DataCollector.getSessionId
GetSessionId ==
    /\ Len(sidReads) < MaxReads
    /\ LET found == sessionGetItem
           sessionId == IF found = Undefined THEN sidNext ELSE found[1]
       IN  /\ sessionItem' = IF found = Undefined
                             THEN sessionSetItem(sessionId) ELSE sessionItem
           /\ sidNext' = IF found = Undefined THEN sidNext + 1 ELSE sidNext
           /\ sidReads' = Append(sidReads, sessionId)
    /\ lastCall' = recorded(lastCall, Call("getSessionId", FALSE, "none", 0))
    /\ UNCHANGED <<sessionStorageIs, userItem, identity>>
    /\ UNCHANGED sessRest

\* MonitorSDK.setUser(userId) -> DataCollector.setUserId, on a LocalStorage
\* made for this call: a value that its fallback takes is dropped with it
SetUser(userId) ==
    /\ userItem' = IF localStorageIs = "ok" THEN Some(userId) ELSE userItem
    /\ identity' = recorded(identity, [called |-> TRUE, userId |-> Some(userId)])
    /\ lastCall' = recorded(lastCall, Call("setUser", FALSE, "none", 0))
    /\ UNCHANGED <<sessionStorageIs, sessionItem, sidNext, sidReads>>
    /\ UNCHANGED sessRest

\* MonitorSDK.clearUser -> DataCollector.clearUserId, on a LocalStorage
\* made for this call
ClearUser ==
    /\ userItem' = IF localStorageIs = "absent" THEN userItem ELSE Undefined
    /\ identity' = recorded(identity, [called |-> TRUE, userId |-> Undefined])
    /\ lastCall' = recorded(lastCall, Call("clearUser", FALSE, "none", 0))
    /\ UNCHANGED <<sessionStorageIs, sessionItem, sidNext, sidReads>>
    /\ UNCHANGED sessRest

InitSession ==
    /\ InitQueueIdle
    /\ InitRetryIdle
    /\ InitPipeIdle
    /\ audit = TRUE
    /\ InitErrIdle
    /\ wOnerror = Null
    /\ wOnrejection = Null
    /\ wFetch = Native
    /\ sessionStorageIs \in {"ok", "absent", "quota"}
    /\ localStorageIs = "ok"
    /\ InitLifeIdle
    /\ InitTimedIdle
    /\ cfgMaxRetries = Some(DefaultMaxRetries)
    /\ sampling = DefaultSampling

NextSession ==
    \/ GetSessionId
    \/ \E userId \in Users : SetUser(userId)
    \/ ClearUser

SpecSession == InitSession /\ [][NextSession]_vars

\* ------------------------------------------------------- key/value stores
\* One LocalStorage object that is kept (as the one the constructor of
\* DataCollector hands to HTTPTransport) and the LocalStorage objects that
\* setUserId, clearUserId and getUserId make per call, on a browser whose
\* localStorage works, is missing (browserSupport.localStorage is false) or
\* has filled up (setItem throws). A missing value, null or undefined, is
\* Undefined.

storeRest == <<queueVars, configVars, rb, rlog, pipeVars, failedItem, timedVars,
               errVars, hookVars, netVars, sdkVars, capVars, replayVars,
               pluginVars, busVars, batchVars, burstVars,
                hostVars,
                callVars,
                bufVars,
                identVars,
                loopVars>>

Values == {"a", "b", ""}

\* MemoryStorage.getItem: this.data.get(key) || null
memoryGetItem(entry) == IF entry = Some("") THEN Undefined ELSE entry

\* LocalStorage.getItem on the kept object
storeGetItem ==
    IF localStorageIs = "absent" THEN memoryGetItem(lsFallback) ELSE lsBrowser

\* DataCollector.getUserId, which MonitorSDK.getStatus reports as userId:
\* getItem on a LocalStorage made for this call, with an empty fallback
getUserId ==
    LET found == IF localStorageIs = "absent" THEN Undefined ELSE userItem
    IN  IF found = Some("") THEN Undefined ELSE found

\* LocalStorage.setItem on the kept object
StoreSetItem(value) ==
    /\ lsBrowser' = IF localStorageIs = "ok" THEN Some(value) ELSE lsBrowser
    /\ lsFallback' = IF localStorageIs = "ok" THEN lsFallback ELSE Some(value)
    /\ lastCall' = recorded(lastCall, Call("setItem", FALSE, "none", 0))
    /\ UNCHANGED <<localStorageIs, sessVars>>
    /\ UNCHANGED storeRest

\* LocalStorage.removeItem on the kept object
StoreRemoveItem ==
    /\ lsBrowser' = IF localStorageIs = "absent" THEN lsBrowser ELSE Undefined
    /\ lsFallback' = IF localStorageIs = "absent" THEN Undefined ELSE lsFallback
    /\ lastCall' = recorded(lastCall, Call("removeItem", FALSE, "none", 0))
    /\ UNCHANGED <<localStorageIs, sessVars>>
    /\ UNCHANGED storeRest

\* the page fills the browser's localStorage: every later setItem throws
StoreFills ==
    /\ localStorageIs = "ok"
    /\ localStorageIs' = "quota"
    /\ lastCall' = recorded(lastCall, Call("fill", FALSE, "none", 0))
    /\ UNCHANGED <<lsBrowser, lsFallback, sessVars>>
    /\ UNCHANGED storeRest

InitStore ==
    /\ InitQueueIdle
    /\ InitRetryIdle
    /\ InitPipeIdle
    /\ audit = TRUE
    /\ InitErrIdle
    /\ wOnerror = Null
    /\ wOnrejection = Null
    /\ wFetch = Native
    /\ sessionStorageIs = "ok"
    /\ localStorageIs \in {"ok", "absent"}
    /\ InitLifeIdle
    /\ InitTimedIdle
    /\ cfgMaxRetries = Some(DefaultMaxRetries)
    /\ sampling = DefaultSampling

NextStore ==
    \/ \E value \in Values : StoreSetItem(value)
    \/ StoreRemoveItem
    \/ StoreFills
    \/ \E userId \in Users : SetUser(userId)
    \/ ClearUser

SpecStore == InitStore /\ [][NextStore]_vars

\* ------------------------------------------------------------------ plugins
\* MonitorSDK.use and unuse next to start and stop, with three plugins: p1
\* has an uninstall, p2 has none, the install of p3 throws.

pluginRest == <<queueVars, configVars, rb, rlog, pipeVars, failedItem, timedVars,
                errVars, hookVars, netVars, sdkVars, capVars, replayVars,
                sessVars, storeVars, busVars, batchVars, burstVars,
                 hostVars,
                 callVars,
                 bufVars,
                 identVars,
                 loopVars>>

PluginNames == {"p1", "p2", "p3"}

hasUninstall(name) == name = "p1"

installThrows(name) == name = "p3"

\* MonitorSDK.use(plugin)
Use(name) ==
    /\ name \in plugins \/ installCalls[name] < MaxUses
    /\ IF name \in plugins
       THEN /\ UNCHANGED pluginVars
            /\ lastCall' = recorded(lastCall, Call("use", FALSE, "warn", 0))
       ELSE /\ installCalls' = recorded(installCalls,
                    [installCalls EXCEPT ![name] = @ + 1])
            /\ plugins' = IF installThrows(name) THEN plugins
                          ELSE plugins \cup {name}
            /\ lastCall' = recorded(lastCall, Call("use", FALSE, "none", 0))
            /\ UNCHANGED uninstallCalls
    /\ UNCHANGED pluginRest

\* MonitorSDK.unuse(pluginName)
Unuse(name) ==
    /\ IF name \notin plugins
       THEN /\ UNCHANGED pluginVars
            /\ lastCall' = recorded(lastCall, Call("unuse", FALSE, "warn", 0))
       ELSE /\ uninstallCalls' = recorded(uninstallCalls,
                    IF hasUninstall(name)
                    THEN [uninstallCalls EXCEPT ![name] = @ + 1]
                    ELSE uninstallCalls)
            /\ plugins' = plugins \ {name}
            /\ lastCall' = recorded(lastCall, Call("unuse", FALSE, "none", 0))
            /\ UNCHANGED installCalls
    /\ UNCHANGED pluginRest

InitPlugin ==
    /\ InitQueueIdle
    /\ InitRetryIdle
    /\ InitPipeIdle
    /\ audit = TRUE
    /\ InitErrIdle
    /\ InitHooksIdle
    /\ InitLifeIdle
    /\ InitTimedIdle
    /\ cfgMaxRetries = Some(DefaultMaxRetries)
    /\ sampling = DefaultSampling

NextPlugin ==
    \/ \E name \in PluginNames : Use(name)
    \/ \E name \in PluginNames : Unuse(name)
    \/ SdkStart
    \/ SdkStop

SpecPlugin == InitPlugin /\ [][NextPlugin]_vars

\* ---------------------------------------------------------------- event bus
\* MonitorSDK.on, off and emit for one event name that the SDK itself does
\* not emit, with three handlers of the host: one returns, one throws, and
\* one unsubscribes itself when it is invoked (a handler for one occurrence).

busRest == <<queueVars, configVars, rb, rlog, pipeVars, failedItem, timedVars,
             errVars, hookVars, netVars, sdkVars, capVars, replayVars,
             sessVars, storeVars, pluginVars, batchVars, burstVars,
              hostVars,
              callVars,
              bufVars,
              identVars,
              loopVars>>

Handlers == {"returns", "throws", "once"}

\* handlers.indexOf(handler), from 1; 0 when it is not there
indexOf(handlers, handler) ==
    IF \E i \in 1..Len(handlers) : handlers[i] = handler
    THEN CHOOSE i \in 1..Len(handlers) :
             /\ handlers[i] = handler
             /\ \A j \in 1..(i - 1) : handlers[j] # handler
    ELSE 0

\* handlers.splice(index, 1)
splice(handlers, index) ==
    [i \in 1..(Len(handlers) - 1) |->
        IF i < index THEN handlers[i] ELSE handlers[i + 1]]

\* the list after off(evt, handler)
offHandler(handlers, handler) ==
    IF indexOf(handlers, handler) > 0
    THEN splice(handlers, indexOf(handlers, handler))
    ELSE handlers

\* handlers.forEach of emit from index k: forEach fixes the range when it
\* starts and reads the array, which a handler may have shortened, at each
\* index
RECURSIVE emitFrom(_, _, _, _)
emitFrom(handlers, k, len, done) ==
    IF k > len THEN [handlers |-> handlers, invoked |-> done]
    ELSE IF k > Len(handlers) THEN emitFrom(handlers, k + 1, len, done)
    ELSE emitFrom(IF handlers[k] = "once"
                  THEN offHandler(handlers, "once") ELSE handlers,
                  k + 1, len, Append(done, handlers[k]))

\* MonitorSDK.on(evt, handler)
On(handler) ==
    /\ Len(eventHandlers) < MaxHandlers
    /\ eventHandlers' = Append(eventHandlers, handler)
    /\ lastCall' = recorded(lastCall, Call("on", FALSE, "none", 0))
    /\ UNCHANGED invoked
    /\ UNCHANGED busRest

\* MonitorSDK.off(evt, handler)
Off(handler) ==
    /\ eventHandlers' = offHandler(eventHandlers, handler)
    /\ lastCall' = recorded(lastCall, Call("off", FALSE, "none", 0))
    /\ UNCHANGED invoked
    /\ UNCHANGED busRest

\* MonitorSDK.off(evt)
OffAll ==
    /\ eventHandlers' = << >>
    /\ lastCall' = recorded(lastCall, Call("offAll", FALSE, "none", 0))
    /\ UNCHANGED invoked
    /\ UNCHANGED busRest

\* MonitorSDK.emit(evt, data); the try around each handler keeps what a
\* handler throws
Emit ==
    /\ LET run == emitFrom(eventHandlers, 1, Len(eventHandlers), << >>)
       IN  /\ eventHandlers' = run.handlers
           /\ invoked' = recorded(invoked, run.invoked)
    /\ lastCall' = recorded(lastCall, Call("emit", FALSE, "none", 0))
    /\ UNCHANGED busRest

InitBus ==
    /\ InitQueueIdle
    /\ InitRetryIdle
    /\ InitPipeIdle
    /\ audit = TRUE
    /\ InitErrIdle
    /\ InitHooksIdle
    /\ InitLifeIdle
    /\ InitTimedIdle
    /\ cfgMaxRetries = Some(DefaultMaxRetries)
    /\ sampling = DefaultSampling

NextBus ==
    \/ \E handler \in Handlers : On(handler)
    \/ \E handler \in Handlers : Off(handler)
    \/ OffAll
    \/ Emit

SpecBus == InitBus /\ [][NextBus]_vars

\* ------------------------------------------------------------ createBatches
\* HTTPTransport.createBatches as send calls it, on every list of up to
\* MaxSent different events and every batchSize from 1 to MaxB.

batchRest == <<queueVars, configVars, rb, rlog, pipeVars, failedItem, timedVars,
               errVars, hookVars, netVars, sdkVars, capVars, replayVars,
               sessVars, storeVars, pluginVars, busVars, burstVars,
                hostVars,
                callVars,
                bufVars,
                identVars,
                loopVars>>

\* the lists of different events
SentLists ==
    {es \in UNION {[1..n -> 1..MaxSent] : n \in 0..MaxSent} :
        \A i, j \in 1..Len(es) : i # j => es[i] # es[j]}

CreateBatches_fromOne(events, B) ==
    /\ batchIn' = events
    /\ batchB' = B
    /\ batchOut' = createBatchesFrom(events, 1, B)
    /\ UNCHANGED <<batchRest, lastCall>>

\* createBatches(events) with config.batchSize = B
CreateBatches(events, B) ==
    /\ batchIn' = events
    /\ batchB' = B
    /\ batchOut' = createBatchesFrom(events, 0, B)
    /\ UNCHANGED <<batchRest, lastCall>>

InitBatch ==
    /\ InitQueueIdle
    /\ InitRetryIdle
    /\ InitPipeIdle
    /\ audit = FALSE
    /\ InitErrIdle
    /\ InitHooksIdle
    /\ InitLifeIdle
    /\ InitTimedIdle
    /\ cfgMaxRetries = Some(DefaultMaxRetries)
    /\ sampling = DefaultSampling

NextBatch == \E events \in SentLists, B \in 1..MaxB : CreateBatches(events, B)

SpecBatch == InitBatch /\ [][NextBatch]_vars

\* ------------------------------------------------------- the periodic cycle
\* A DataCollector built with features.replay on and the other features off,
\* so that its one capture component is the SessionReplayCollector, which
\* startReplay sets recording; addEvent next to it, and an endpoint that
\* answers every request.

\* the timeout of scheduleFlush fires: collectAndFlush, which enqueues what
\* collect() of the recorder returned and flushes a queue that is not empty,
\* then scheduleFlush. The awaits before the one on transport.send resume
\* in the microtasks of the same task.
CollectAndFlush ==
    /\ TaskBoundary
    /\ flushTimer
    /\ isStarted
    /\ LET pulled == Len(records) > 0
           queued == IF pulled
                     THEN [Now EXCEPT !.queue = enqueue(queue, nextId)]
                     ELSE Now
       IN  /\ pulled => nextId <= MaxEvents
           /\ flushFits(queued)
           /\ Becomes(IF Len(queued.queue) > 0 THEN flush(queued) ELSE queued)
           /\ nextId' = IF pulled THEN nextId + 1 ELSE nextId
           /\ evicted' = recorded(evicted,
                            IF pulled THEN evicted \cup enqueueDropped(queue)
                            ELSE evicted)
           /\ lastCall' = recorded(lastCall,
                  Call("collectAndFlush", FALSE, "none", IF pulled THEN 1 ELSE 0))
    /\ lastCollected' = IF Len(records) = 0 THEN Undefined
                        ELSE Some([type |-> records[1].type, data |-> records[1].data])
    /\ records' = << >>
    /\ flushTimer' = TRUE
    /\ lastTask' = recorded(lastTask, "timer")
    /\ UNCHANGED <<lastOp, configVars, rb, rlog, errVars, timedVars, sampleVars,
                   isStarted, failedItem, debouncePending, inThrottle, acked,
                   beaconed, beaconCalls, lastDone, spillCapped>>
    /\ UNCHANGED <<hookVars, netVars, sdkVars, capVars, sessVars, moreVars>>
    /\ UNCHANGED <<isRecording, replayListeners, replayObservers, recStarts,
                   clock, recordingFirst, stoppedByBudget>>

InitCycle ==
    /\ InitQueueIdle
    /\ InitRetryIdle
    /\ InitPipeIdle
    /\ audit = TRUE
    /\ InitErrIdle
    /\ InitHooksIdle
    /\ InitLifeIdle
    /\ InitTimedIdle
    /\ cfgMaxRetries = Some(1)
    /\ sampling = DefaultSampling

NextCycle ==
    \/ Start
    \/ \E kind \in Kinds, draw \in Draws : AddEvent(kind, draw)
    \/ DebounceFire
    \/ ThrottleRelease
    \/ StartRecording
    \/ Click
    \/ CollectAndFlush
    \/ \E s \in Slots, j \in 1..MaxBatches : PostResult(s, j, TRUE)
    \/ \E s \in Slots : Resume(s)

SpecCycle == InitCycle /\ [][NextCycle]_vars

\* ------------------------------------------------------ bursts of error events
\* addEvent of up to MaxErrors error events that pass sampling, at any step
\* of the clock of SpecTimed, with the debounce and the scheduleFlush
\* timeouts. A burst begins with an admission that finds no debounce timeout
\* pending.

burstRest == <<lastOp, configVars, rb, rlog, hookVars, netVars, sdkVars, capVars,
               replayVars, sessVars, storeVars, pluginVars, busVars, batchVars,
               lastCall, errVars, sampleVars, sends, failedItem,
               debouncePending, inThrottle, acked, beaconed, beaconCalls,
               evicted, handed, lastDone, lastTask, spillCapped, tThrottle,
               tPeriodic, elapsedFirst, errId, burstSpan, isStarted,
               flushTimer,
                hostVars,
                callVars,
                bufVars,
                identVars,
                loopVars>>

debouncedCall_keep(t) == IF t = Undefined THEN Some(debounceWait) ELSE t

\* the function debounce() returns: clearTimeout(timeout), then
\* timeout = setTimeout(later, wait); the timeout afterwards
debouncedCall(t) == Some(debounceWait)

\* DataCollector.addEvent of an error event that passes sampling
BurstAdmitError ==
    /\ isStarted
    /\ nextId <= MaxErrors
    /\ nextId' = nextId + 1
    /\ queue' = enqueueAt(queue, nextId, QueueCapacity)
    /\ tDebounce' = debouncedCall(tDebounce)
    /\ elapsedError' = Some(0)
    /\ bursts' = IF tDebounce = Undefined THEN bursts + 1 ELSE bursts
    /\ burstSize' = IF tDebounce = Undefined THEN 1 ELSE burstSize + 1
    /\ UNCHANGED <<posted, debounceAt, debounceFlushes>>
    /\ UNCHANGED burstRest

\* the debounce timeout fires: later() calls flush
BurstDebounceFire ==
    /\ due(tDebounce)
    /\ tDebounce' = Undefined
    /\ debounceAt' = elapsedError
    /\ debounceFlushes' = debounceFlushes + 1
    /\ TimedBecomes(timedFlush(TimedNow, "debounce"))
    /\ UNCHANGED <<nextId, elapsedError, bursts, burstSize>>
    /\ UNCHANGED burstRest

NextBurst ==
    \/ TimedStart
    \/ TimedTick
    \/ BurstAdmitError
    \/ BurstDebounceFire
    \/ TimedPeriodicFlush

SpecBurst == InitTimed /\ [][NextBurst]_vars

\* ------------------------------------------------- delivery to host handlers
\* Uncaught errors and unhandled rejections on a page with or without
\* handlers of its own, while ErrorCollector starts and stops. A handler of
\* the page returns. delivery lists whom the dispatch reached: the handler
\* and what it was called with; the entry of SdkFn stands for the
\* collector's own addErrorEvent.

hooksRest == <<queueVars, configVars, rb, rlog, pipeVars, failedItem, timedVars,
               netVars, sdkVars, capVars, replayVars, sessVars, storeVars,
               pluginVars, busVars, batchVars, burstVars,
                callVars,
                bufVars,
                identVars,
                loopVars>>

\* the uncaught errors of this specification: the message of the second is
\* outside Latin-1
HookErrors ==
    { [message |-> m, fileName |-> Some(Str_appjs),
       lineNumber |-> Some(10), columnNumber |-> Some(3)] :
         m \in {Str_Boom, Str_NetErr} }

\* what the rejection handler passes to createErrorEvent for a rejection
\* with a string as its reason
Rejections ==
    { [message |-> Str_Bang, fileName |-> Undefined,
       lineNumber |-> Undefined, columnNumber |-> Undefined] }

Delivered(to, args) == [to |-> to, args |-> args]

chain_sdkFirst(original, params) ==
    (IF createErrorEvent(params).threw THEN << >>
     ELSE <<Delivered(SdkFn, params)>>)
    \o (IF original = Null THEN << >> ELSE <<Delivered(original, params)>>)

\* the handler the collector installs: the saved handler, when there is
\* one, is called with the arguments of the call, then createErrorEvent,
\* which may throw, and addErrorEvent
chain(original, params) ==
    (IF original = Null THEN << >> ELSE <<Delivered(original, params)>>)
    \o (IF createErrorEvent(params).threw THEN << >>
        ELSE <<Delivered(SdkFn, params)>>)

\* the browser calls window.onerror for an uncaught error
GlobalError(params) ==
    /\ delivery' = recorded(delivery,
          IF wOnerror = SdkFn THEN chain(orNull(originalErrorHandler), params)
          ELSE IF wOnerror = Null THEN << >>
          ELSE <<Delivered(wOnerror, params)>>)
    /\ IF wOnerror = SdkFn
       THEN /\ errTriggered' = errTriggered \cup {params}
            /\ ErrBecomes(handleError(ErrNow, params))
       ELSE UNCHANGED <<errTriggered, errorBuffer, errorFingerprints, errLog>>
    /\ lastCall' = recorded(lastCall, Call("onerror", FALSE, "none", 0))
    /\ UNCHANGED <<errRunning, resourceListeners, hookVars>>
    /\ UNCHANGED hooksRest

\* the browser calls window.onunhandledrejection
UnhandledRejection(params) ==
    /\ delivery' = recorded(delivery,
          IF wOnrejection = SdkFn
          THEN chain(orNull(originalUnhandledRejectionHandler), params)
          ELSE IF wOnrejection = Null THEN << >>
          ELSE <<Delivered(wOnrejection, params)>>)
    /\ IF wOnrejection = SdkFn
       THEN /\ errTriggered' = errTriggered \cup {params}
            /\ ErrBecomes(handleError(ErrNow, params))
       ELSE UNCHANGED <<errTriggered, errorBuffer, errorFingerprints, errLog>>
    /\ lastCall' = recorded(lastCall, Call("onunhandledrejection", FALSE, "none", 0))
    /\ UNCHANGED <<errRunning, resourceListeners, hookVars>>
    /\ UNCHANGED hooksRest

InitHooks ==
    /\ InitQueueIdle
    /\ InitRetryIdle
    /\ InitPipeIdle
    /\ audit = TRUE
    /\ InitErrIdle
    /\ wOnerror \in {Null, PageFn}
    /\ wOnrejection = IF wOnerror = Null THEN Null ELSE PageFn2
    /\ wFetch = Native
    /\ sessionStorageIs = "ok"
    /\ localStorageIs = "ok"
    /\ InitLifeIdle
    /\ InitTimedIdle
    /\ cfgMaxRetries = Some(DefaultMaxRetries)
    /\ sampling = DefaultSampling

NextHooks ==
    \/ ErrStart
    \/ ErrStop
    \/ \E params \in HookErrors : GlobalError(params)
    \/ \E params \in Rejections : UnhandledRejection(params)

SpecHooks == InitHooks /\ [][NextHooks]_vars

\* ------------------------------------------------------ intercepted requests
\* The host calls fetch, XMLHttpRequest.prototype.open and send while
\* MonitorSDK starts and stops. The ErrorCollector of this specification is
\* not running, so every captureException of a wrapper returns at once.
\* The fetch of the platform may test its receiver, as the fetch of a
\* browser does (it throws a TypeError when this is neither undefined nor
\* the global object), or not, as a stand-in of a test environment.

netRest == <<queueVars, configVars, rb, rlog, pipeVars, failedItem, timedVars,
             errVars, hookVars, netVars, sdkVars, capVars, replayVars,
             sessVars, storeVars, pluginVars, busVars, batchVars, burstVars,
             hostVars,
              bufVars,
              identVars,
              loopVars>>

\* what a request comes to: a response (2xx or not) or a failure
RequestOutcomes == {"ok", "http500", "failure"}

HostCall(api, reached, original, got) ==
    [api |-> api, reached |-> reached, original |-> original, got |-> got]

\* window.fetch as interceptFetch installs it: this.originalFetch(input,
\* init) calls the saved function with the collector as its receiver; the
\* response is returned, a failure is thrown again after captureException
fetchWrapper(outcome, checksThis) ==
    IF checksThis
    THEN HostCall("fetch", FALSE, "none", "TypeError")
    ELSE HostCall("fetch", TRUE, outcome, outcome)

\* XMLHttpRequest.prototype.open and send as interceptXHR installs them:
\* functions whose this is the request, on which originalXHROpen and
\* originalXHRSend are undefined, so that `.call` throws a TypeError
xhrWrapper(api, outcome) == HostCall(api, FALSE, "none", "TypeError")

\* the host calls fetch(input, init)
HostFetch(outcome, checksThis) ==
    /\ wFetch # Absent
    /\ hostCall' = recorded(hostCall,
          IF wFetch = SdkFn THEN fetchWrapper(outcome, checksThis)
          ELSE HostCall("fetch", TRUE, outcome, outcome))
    /\ lastCall' = recorded(lastCall, Call("fetch", FALSE, "none", 0))
    /\ UNCHANGED netRest

\* the host calls xhr.open(method, url)
HostXhrOpen ==
    /\ hostCall' = recorded(hostCall,
          IF xhrOpen = SdkFn THEN xhrWrapper("open", "ok")
          ELSE HostCall("open", TRUE, "ok", "ok"))
    /\ lastCall' = recorded(lastCall, Call("open", FALSE, "none", 0))
    /\ UNCHANGED netRest

\* the host calls xhr.send(body)
HostXhrSend(outcome) ==
    /\ hostCall' = recorded(hostCall,
          IF xhrSend = SdkFn THEN xhrWrapper("send", outcome)
          ELSE HostCall("send", TRUE, outcome, outcome))
    /\ lastCall' = recorded(lastCall, Call("send", FALSE, "none", 0))
    /\ UNCHANGED netRest

InitNet ==
    /\ InitQueueIdle
    /\ InitRetryIdle
    /\ InitPipeIdle
    /\ audit = TRUE
    /\ InitErrIdle
    /\ wOnerror = Null
    /\ wOnrejection = Null
    /\ wFetch \in {Native, Absent}
    /\ sessionStorageIs = "ok"
    /\ localStorageIs = "ok"
    /\ InitLifeIdle
    /\ InitTimedIdle
    /\ cfgMaxRetries = Some(DefaultMaxRetries)
    /\ sampling = DefaultSampling

NextNet ==
    \/ SdkStart
    \/ SdkStop
    \/ \E outcome \in RequestOutcomes, checksThis \in BOOLEAN :
          HostFetch(outcome, checksThis)
    \/ HostXhrOpen
    \/ \E outcome \in RequestOutcomes : HostXhrSend(outcome)

SpecNet == InitNet /\ [][NextNet]_vars

\* ------------------------------------------------------ capture-side buffers
\* ErrorCollector.errorBuffer and BehaviorCollector.eventBuffer under
\* captureMessage, track and the two collect calls, the collectors started
\* directly. A behavior event is named by its number in the session.

bufRest == <<queueVars, configVars, rb, rlog, pipeVars, failedItem, timedVars,
             hookVars, netVars, sdkVars, replayVars, sessVars, storeVars,
             pluginVars, busVars, batchVars, burstVars, hostVars, callVars,
              identVars,
              loopVars>>

\* the messages given to captureMessage: four with fingerprints of their
\* own and one outside Latin-1
BufMessages == {Str_Boom, Str_Bang, Str_FailedImg, Str_appjs, Str_NetErr}

\* BehaviorCollector.addBehaviorEvent
addBehaviorEvent(buffer, event) ==
    Append(IF Len(buffer) >= maxEventsPerSession THEN Tail(buffer) ELSE buffer,
           event)

\* ErrorCollector.captureMessage(message)
BufCaptureMessage(message) ==
    LET params == [message |-> message, fileName |-> Undefined,
                   lineNumber |-> Undefined, columnNumber |-> Undefined]
        st == IF errRunning THEN handleError(ErrNow, params) ELSE ErrNow
        ev == createErrorEvent(params)
        isNew == errRunning /\ ~ev.threw /\ ev.fingerprint \notin errorFingerprints
    IN  /\ ErrBecomes(st)
        /\ errTriggered' = IF errRunning THEN errTriggered \cup {params}
                           ELSE errTriggered
        /\ sinceCollect' = recorded(sinceCollect,
               IF isNew
               THEN [sinceCollect EXCEPT !.error =
                       Append(@, [error |-> ev.error, fingerprint |-> ev.fingerprint])]
               ELSE sinceCollect)
        /\ UNCHANGED <<errRunning, resourceListeners, capVars, eventBuffer,
                       behCaptured, returned>>
        /\ UNCHANGED <<bufRest, lastCall>>

\* BehaviorCollector.track(action)
Track ==
    /\ behCaptured < MaxCaptured
    /\ IF behRunning
       THEN /\ behCaptured' = behCaptured + 1
            /\ eventBuffer' = addBehaviorEvent(eventBuffer, behCaptured + 1)
            /\ sinceCollect' = recorded(sinceCollect,
                   [sinceCollect EXCEPT !.behavior = Append(@, behCaptured + 1)])
       ELSE UNCHANGED <<behCaptured, eventBuffer, sinceCollect>>
    /\ behBufferLen' = Len(eventBuffer')
    /\ UNCHANGED <<domListeners, observers, behRunning, behListeners, behStarts,
                   pushStateWraps, replaceStateWraps, perfRunning, perfObserver,
                   perfStarts, errVars, returned>>
    /\ UNCHANGED <<bufRest, lastCall>>

\* ErrorCollector.collect
ErrorCollect ==
    /\ returned' = recorded(returned, [of |-> "error", errors |-> errorBuffer, events |-> << >>])
    /\ errorBuffer' = << >>
    /\ sinceCollect' = recorded(sinceCollect, [sinceCollect EXCEPT !.error = << >>])
    /\ UNCHANGED <<errRunning, resourceListeners, errorFingerprints, errLog,
                   errTriggered, capVars, eventBuffer, behCaptured>>
    /\ UNCHANGED <<bufRest, lastCall>>

\* BehaviorCollector.collect
BehaviorCollect ==
    /\ returned' = recorded(returned, [of |-> "behavior", errors |-> << >>, events |-> eventBuffer])
    /\ eventBuffer' = << >>
    /\ behBufferLen' = 0
    /\ sinceCollect' = recorded(sinceCollect,
                                [sinceCollect EXCEPT !.behavior = << >>])
    /\ UNCHANGED <<domListeners, observers, behRunning, behListeners, behStarts,
                   pushStateWraps, replaceStateWraps, perfRunning, perfObserver,
                   perfStarts, errVars, behCaptured>>
    /\ UNCHANGED <<bufRest, lastCall>>

InitBuffers ==
    /\ InitQueueIdle
    /\ InitRetryIdle
    /\ InitPipeIdle
    /\ audit = TRUE
    /\ InitErrIdle
    /\ InitHooksIdle
    /\ InitLifeIdle
    /\ InitTimedIdle
    /\ cfgMaxRetries = Some(DefaultMaxRetries)
    /\ sampling = DefaultSampling

NextBuffers ==
    \/ ErrStart
    \/ BehStart
    \/ \E message \in BufMessages : BufCaptureMessage(message)
    \/ Track
    \/ ErrorCollect
    \/ BehaviorCollect

SpecBuffers == InitBuffers /\ [][NextBuffers]_vars

\* ------------------------------------------------------ identity on events
\* setUser and clearUser of MonitorSDK, the construction of a DataCollector
\* (a page load, or Monitor.init after destroy) and the creation of an event
\* by a capture component, on a browser whose localStorage works, is missing
\* or has filled up. The constructor hands getUserId() to each collector,
\* which keeps it in its field userId.

identRest == <<queueVars, configVars, rb, rlog, pipeVars, failedItem, timedVars,
               errVars, hookVars, netVars, sdkVars, capVars, replayVars,
               storeVars, pluginVars, busVars, batchVars, burstVars, hostVars,
               callVars, bufVars,
                loopVars>>

Components == {"performance", "error", "behavior"}

\* new DataCollector(config): setupCollectors
Construct ==
    /\ collectorUserId' = getUserId
    /\ identity' = recorded(identity, [called |-> FALSE, userId |-> Undefined])
    /\ lastCall' = recorded(lastCall, Call("new DataCollector", FALSE, "none", 0))
    /\ UNCHANGED <<sessionStorageIs, sessionItem, userItem, sidNext, sidReads,
                   envelope>>
    /\ UNCHANGED identRest

\* createErrorEvent, createBehaviorEvent and the base event of the
\* PerformanceCollector: userId: this.userId
CreateEvent(component) ==
    /\ envelope' = recorded(envelope, [component |-> component,
                                       userId |-> collectorUserId])
    /\ lastCall' = recorded(lastCall, Call("createEvent", FALSE, "none", 1))
    /\ UNCHANGED <<sessVars, collectorUserId>>
    /\ UNCHANGED identRest

InitIdentity ==
    /\ InitQueueIdle
    /\ InitRetryIdle
    /\ InitPipeIdle
    /\ audit = TRUE
    /\ InitErrIdle
    /\ wOnerror = Null
    /\ wOnrejection = Null
    /\ wFetch = Native
    /\ sessionStorageIs = "ok"
    /\ localStorageIs \in {"ok", "absent", "quota"}
    /\ InitLifeIdle
    /\ InitTimedIdle
    /\ cfgMaxRetries = Some(DefaultMaxRetries)
    /\ sampling = DefaultSampling

NextIdentity ==
    \/ Construct
    \/ \E userId \in Users : SetUser(userId)
    \/ ClearUser
    \/ \E component \in Components : CreateEvent(component)

SpecIdentity == InitIdentity /\ [][NextIdentity]_vars

\* ------------------------------------------------ the loop of createBatches
\* HTTPTransport.send with a configured batchSize of any sign, the loop of
\* createBatches taken one iteration at a time and followed for at most
\* MaxIterations iterations.

loopRest == <<queueVars, configVars, rb, rlog, pipeVars, failedItem, timedVars,
              errVars, hookVars, netVars, sdkVars, capVars, replayVars,
              sessVars, storeVars, pluginVars, busVars, burstVars, hostVars,
              callVars, bufVars, identVars, lastCall>>

\* the configured values of reporting.batchSize
BatchSizes == (0 - MaxB)..MaxB

\* a relative index of slice: a negative one counts from the end
relativeIndex(len, k) ==
    IF k < 0 THEN (IF len + k < 0 THEN 0 ELSE len + k)
    ELSE Min(k, len)

\* Array.prototype.slice(from, to) with indices of any sign
sliceRelative(s, from, to) ==
    LET lo == relativeIndex(Len(s), from)
        hi == relativeIndex(Len(s), to)
    IN  IF hi <= lo THEN << >> ELSE SubSeq(s, lo + 1, hi)

\* HTTPTransport.send(events) up to the first test of the loop of
\* createBatches
SendEnters(events, B) ==
    /\ ~looping
    /\ batchIn' = events
    /\ batchB' = B
    /\ batchOut' = << >>
    /\ loopI' = 0
    /\ looping' = (Len(events) # 0)
    /\ UNCHANGED loopRest

\* one iteration: batches.push(events.slice(i, i + batchSize)); i += batchSize
LoopIteration ==
    /\ looping
    /\ loopI < Len(batchIn)
    /\ Len(batchOut) < MaxIterations
    /\ batchOut' = Append(batchOut, sliceRelative(batchIn, loopI, loopI + batchB))
    /\ loopI' = loopI + batchB
    /\ UNCHANGED <<batchIn, batchB, looping>>
    /\ UNCHANGED loopRest

\* the test i < events.length fails: return batches
LoopReturns ==
    /\ looping
    /\ ~(loopI < Len(batchIn))
    /\ looping' = FALSE
    /\ UNCHANGED <<batchIn, batchB, batchOut, loopI>>
    /\ UNCHANGED loopRest

InitLoop ==
    /\ InitQueueIdle
    /\ InitRetryIdle
    /\ InitPipeIdle
    /\ audit = FALSE
    /\ InitErrIdle
    /\ InitHooksIdle
    /\ InitLifeIdle
    /\ InitTimedIdle
    /\ cfgMaxRetries = Some(DefaultMaxRetries)
    /\ sampling = DefaultSampling

NextLoop ==
    \/ \E events \in SentLists, B \in BatchSizes : SendEnters(events, B)
    \/ LoopIteration
    \/ LoopReturns

SpecLoop == InitLoop /\ [][NextLoop]_vars

\* --------------------------------------------------- draining under timers
\* A started SDK whose timers fire and whose endpoint answers every request:
\* MonitorSDK.start, before or after a direct start of the ErrorCollector,
\* admissions through addEvent, the debounce and throttle timeouts, the
\* periodic cycle, and the responses. Every timeout that is pending fires
\* and every request is answered.

InitDrain ==
    /\ InitQueueIdle
    /\ InitRetryIdle
    /\ InitPipeIdle
    /\ audit = FALSE
    /\ InitErrIdle
    /\ InitHooksIdle
    /\ InitLifeIdle
    /\ InitTimedIdle
    /\ cfgMaxRetries = Some(DefaultMaxRetries)
    /\ sampling = DefaultSampling

NextDrain ==
    \/ ErrStart
    \/ SdkStart
    \/ \E kind \in Kinds, draw \in Draws : AddEvent(kind, draw)
    \/ DebounceFire
    \/ ThrottleRelease
    \/ PeriodicFlush
    \/ \E s \in Slots, j \in 1..MaxBatches : PostResult(s, j, TRUE)
    \/ \E s \in Slots : Resume(s)

SpecDrain ==
    /\ InitDrain
    /\ [][NextDrain]_vars
    /\ SF_vars(DebounceFire)
    /\ SF_vars(ThrottleRelease)
    /\ SF_vars(PeriodicFlush)
    /\ WF_vars(\E s \in Slots, j \in 1..MaxBatches : PostResult(s, j, TRUE))
    /\ WF_vars(\E s \in Slots : Resume(s))

\* C13: when stop runs after the error hooks and the network interception
\* were started, window.onerror, window.onunhandledrejection, window.fetch,
\* XMLHttpRequest.prototype.open and XMLHttpRequest.prototype.send are again
\* the references that start found.
C13_StopRestores ==
    [][(/\ lastCall'.op = "MonitorSDK.stop"
        /\ isInitialized
        /\ errRunning
        /\ xhrOpen = SdkFn) =>
          /\ wOnerror' = hooksBefore[1].onerror
          /\ wOnrejection' = hooksBefore[1].onunhandledrejection
          /\ wFetch' = netBefore[1].fetch
          /\ xhrOpen' = netBefore[1].open
          /\ xhrSend' = netBefore[1].send
      ]_vars

\* C14: BehaviorCollector.stop leaves history.pushState and
\* history.replaceState as the original functions, and one pushState call
\* records exactly one navigate event while the collector runs and none while
\* it is stopped, after any number of stop and start.
C14_NoDanglingWrap ==
    [][/\ lastCall'.op = "BehaviorCollector.stop" =>
             pushStateWraps' = 0 /\ replaceStateWraps' = 0
       /\ lastCall'.op = "history.pushState" =>
             lastCall'.events = (IF behRunning THEN 1 ELSE 0)
      ]_vars

\* C15: the stop of a capture component removes every event listener and
\* disconnects every observer that its start installed, the listeners of the
\* capturing phase included.
C15_StopRemovesAll ==
    [][/\ lastCall'.op = "BehaviorCollector.stop" =>
             \A l \in domListeners' : l.handler[1] # "behavior"
       /\ lastCall'.op = "PerformanceCollector.stop" =>
             /\ \A l \in domListeners' : l.handler[1] # "performance"
             /\ observers' = {}
       /\ lastCall'.op = "ErrorCollector.stop" => resourceListeners' = 0
      ]_vars

\* C16: MonitorSDK.start on a started SDK and MonitorSDK.stop on a stopped
\* one change nothing: no handler, wrap, listener or flush timer is added and
\* no lifecycle event is emitted; getStatus().initialized is true after every
\* start, false after every stop, and no other call changes it.
C16_Idempotent ==
    [][/\ (\/ lastCall'.op = "MonitorSDK.start" /\ isInitialized
           \/ lastCall'.op = "MonitorSDK.stop" /\ ~isInitialized) =>
             /\ lastCall'.emits = "none"
             /\ ~lastCall'.threw
             /\ UNCHANGED <<hookVars, netVars, capVars, sdkVars, errVars,
                            queueVars, pipeVars, failedItem>>
       /\ lastCall'.op = "MonitorSDK.start" => getStatus'.initialized
       /\ lastCall'.op = "MonitorSDK.stop" => ~getStatus'.initialized
       /\ lastCall'.op \notin {"MonitorSDK.start", "MonitorSDK.stop"} =>
             getStatus'.initialized = getStatus.initialized
      ]_vars

\* a second start has run on a started SDK whose timer and wraps are in place
C16_Witness ==
    /\ lastCall = Call("MonitorSDK.start", FALSE, "none", 0)
    /\ isInitialized
    /\ flushTimer
    /\ xhrOpen = SdkFn
    /\ orphanTimers = 0

\* C17: pauseRecording leaves the listeners and observers of startRecording
\* installed; while the recorder is not recording no click and no mutation
\* batch admits a record; resumeRecording turns admission on again with the
\* same listeners and observers, without a snapshot and without installing.
C17_PauseKeepsListeners ==
    [][/\ lastCall'.op = "pauseRecording" =>
             /\ ~isRecording'
             /\ UNCHANGED <<domListeners, observers, replayListeners,
                            replayObservers, records>>
       /\ (~isRecording /\ lastCall'.op \in {"click", "mutations"}) =>
             /\ records' = records
             /\ lastCall'.events = 0
       /\ lastCall'.op = "resumeRecording" =>
             /\ isRecording'
             /\ UNCHANGED <<domListeners, observers, replayListeners,
                            replayObservers, records, recStarts>>
      ]_vars

\* a click reached the listeners of a paused recorder and left no record
C17_Witness ==
    /\ lastCall = Call("click", FALSE, "none", 0)
    /\ ~isRecording
    /\ replayListeners # {}
    /\ replayObservers # {}
    /\ Len(records) > 0

\* C18: the events list of every replay event that collect() returns starts
\* with a dom record holding a fullSnapshot.
C18_SnapshotFirst ==
    lastCollected # Undefined =>
        lastCollected[1] = [type |-> "dom", data |-> "fullSnapshot"]

\* C19: the record list never holds more than maxRecordsPerSession records;
\* no record in it is younger than the first record of the recording by more
\* than maxRecordTime; an admission to a full list stops the recording; and
\* once a budget has stopped the recording, no record is admitted before
\* startRecording runs again.
C19_Budgets ==
    [][/\ Len(records') <= maxRecordsPerSession
       /\ \A i \in 1..Len(records') :
             recordingFirst' # Undefined =>
                records'[i].timestamp - recordingFirst'[1] <= maxRecordTime
       /\ (lastCall'.events > 0 /\ Len(records) >= maxRecordsPerSession) =>
             ~isRecording'
       /\ (stoppedByBudget /\ lastCall'.op # "startRecording") =>
             lastCall'.events = 0
      ]_vars

\* C20: every read of the session id returns the id that the first read
\* created, and setUser and clearUser leave the stored session id alone.
C20_OneSessionId ==
    [][/\ \A i \in 1..Len(sidReads') : sidReads'[i] = sidReads'[1]
       /\ lastCall'.op \in {"setUser", "clearUser"} =>
             sessionItem' = sessionItem
      ]_vars

\* C21: a value written with setItem is what getItem returns afterwards, also
\* when the browser's store is missing or refuses the write; after setUser(u)
\* getStatus().userId is u and after clearUser() it is undefined.
C21_WrittenIsRead ==
    [][/\ \A value \in Values : StoreSetItem(value) => storeGetItem' = Some(value)
       /\ \A userId \in Users : SetUser(userId) => getUserId' = Some(userId)
       /\ ClearUser => getUserId' = Undefined]_vars

\* C22: a use of a name that is installed does not invoke install again;
\* unuse(name) runs the uninstall of the plugin, when it has one; and stop
\* runs the uninstall of every installed plugin that has one.
C22_UninstallOnStop ==
    [][/\ \A name \in plugins :
              Use(name) => installCalls'[name] = installCalls[name]
       /\ \A name \in plugins :
              (Unuse(name) /\ hasUninstall(name)) =>
                  uninstallCalls'[name] = uninstallCalls[name] + 1
       /\ (lastCall'.op = "MonitorSDK.stop" /\ isInitialized) =>
              \A name \in plugins :
                  hasUninstall(name) =>
                      uninstallCalls'[name] = uninstallCalls[name] + 1]_vars

\* C23: an emit invokes every handler subscribed to the event once per
\* subscription, also when one of them throws, and nothing reaches the
\* emitter; after off(evt, h) h is not subscribed any more, after off(evt)
\* no handler is.
C23_EmitReachesAll ==
    [][/\ lastCall'.op = "emit" =>
              /\ \A h \in Handlers :
                     Cardinality({i \in 1..Len(invoked') : invoked'[i] = h})
                       = Cardinality({i \in 1..Len(eventHandlers) :
                                         eventHandlers[i] = h})
              /\ ~lastCall'.threw
       /\ \A h \in Handlers :
              Off(h) => \A i \in 1..Len(eventHandlers') : eventHandlers'[i] # h
       /\ lastCall'.op = "offAll" => eventHandlers' = << >>]_vars

\* C24: drain(n) returns the first min(n, size) events in enqueue order and
\* leaves the others in order; drain() returns all events and empties the
\* queue, so on an empty queue it returns the empty list; and an enqueue(e)
\* right after a drain() leaves e as the only element.
C24_Drain ==
    [][/\ lastOp'.op = "drainCount" =>
              LET k == Min(lastOp'.arg, Len(queue))
              IN  /\ lastOp'.ret = SubSeq(queue, 1, k)
                  /\ queue' = SubSeq(queue, k + 1, Len(queue))
       /\ lastOp'.op = "drain" =>
              /\ lastOp'.ret = queue
              /\ queue' = << >>
       /\ (lastOp.op = "drain" /\ lastOp'.op = "enqueue") =>
              queue' = <<lastOp'.arg>>]_vars

\* a drain(1) of a queue of two events: one returned, one left
C24_Witness ==
    /\ lastOp.op = "drainCount"
    /\ lastOp.arg = 1
    /\ Len(lastOp.ret) = 1
    /\ Len(queue) = 1

\* lists put one after the other
RECURSIVE joined(_)
joined(lists) ==
    IF lists = << >> THEN << >> ELSE Head(lists) \o joined(Tail(lists))

\* C25: the batches of send are consecutive pieces of the events: put one
\* after the other they are the events in their order, so every event is in
\* exactly one batch and keeps its place in it; no batch is empty and none
\* has more than batchSize events.
C25_Partition ==
    /\ joined(batchOut) = batchIn
    /\ \A j \in 1..Len(batchOut) :
           /\ Len(batchOut[j]) >= 1
           /\ Len(batchOut[j]) <= batchB

\* three events in batches of two: a full batch and a rest
C25_Witness ==
    /\ batchB = 2
    /\ Len(batchIn) = 3
    /\ Len(batchOut) = 2
    /\ Len(batchOut[1]) = 2

C27_SampledBeforeQueue ==
    [][/\ (CollectAndFlush /\ nextId' # nextId) =>
              \A draw \in Draws : shouldSample(sampling, "replay", draw)
       /\ \A kind \in Kinds, draw \in Draws :
              (AddEvent(kind, draw) /\ nextId' # nextId) =>
                  shouldSample(sampling, kind, draw)]_vars

\* C28: the debounced flush runs once per burst of error admissions and not
\* while the burst lasts, and it runs debounceWait (to the step of the
\* clock) after the last admission of the burst.
C28_OneFlushPerBurst ==
    /\ debounceFlushes = IF tDebounce = Undefined THEN bursts ELSE bursts - 1
    /\ debounceAt # Undefined =>
          /\ debounceAt[1] >= debounceWait
          /\ debounceAt[1] < debounceWait + Tick

\* one burst of MaxErrors errors and its one flush, whose request carries
\* them all
C28_Witness ==
    /\ bursts = 1
    /\ burstSize = MaxErrors
    /\ debounceFlushes = 1
    /\ debounceAt # Undefined
    /\ \E i \in 1..Len(posted) :
          posted[i] = [events |-> idRange(1, MaxErrors), by |-> "debounce"]

\* C29: while the collector's handlers are installed, an uncaught error and
\* an unhandled rejection reach the handler that the page had before start
\* once, with the arguments of the dispatch, and first: what follows it is
\* the collector's own recording.
C29_HostFirstOnce ==
    [][/\ \A params \in HookErrors :
              (/\ GlobalError(params)
               /\ errRunning
               /\ wOnerror = SdkFn
               /\ hooksBefore[1].onerror # Null) =>
                  /\ Len(delivery') >= 1
                  /\ delivery'[1] = Delivered(hooksBefore[1].onerror, params)
                  /\ \A i \in 2..Len(delivery') : delivery'[i].to = SdkFn
       /\ \A params \in Rejections :
              (/\ UnhandledRejection(params)
               /\ errRunning
               /\ wOnrejection = SdkFn
               /\ hooksBefore[1].onunhandledrejection # Null) =>
                  /\ Len(delivery') >= 1
                  /\ delivery'[1] =
                        Delivered(hooksBefore[1].onunhandledrejection, params)
                  /\ \A i \in 2..Len(delivery') : delivery'[i].to = SdkFn
      ]_vars

\* a rejection reached the page's handler and then the collector, after a
\* stop and a second start
C29_Witness ==
    /\ errRunning
    /\ resourceListeners = 2
    /\ lastCall.op = "onunhandledrejection"
    /\ Len(delivery) = 2
    /\ delivery[1].to = PageFn2
    /\ delivery[2].to = SdkFn

\* C30: while the interception is installed, a host call of fetch, open or
\* send reaches the saved original with its arguments, and the host gets
\* what the original came to, response or failure, and no exception that
\* the wrapper made.
C30_Transparent ==
    [][/\ \A outcome \in RequestOutcomes, checksThis \in BOOLEAN :
              (HostFetch(outcome, checksThis) /\ wFetch = SdkFn) =>
                  /\ hostCall'.reached
                  /\ hostCall'.got = outcome
       /\ (HostXhrOpen /\ xhrOpen = SdkFn) =>
              /\ hostCall'.reached
              /\ hostCall'.got = "ok"
       /\ \A outcome \in RequestOutcomes :
              (HostXhrSend(outcome) /\ xhrSend = SdkFn) =>
                  /\ hostCall'.reached
                  /\ hostCall'.got = outcome
      ]_vars

\* C31: MonitorSDK.start on a stopped SDK leaves every configured capture
\* component running (performance, errors, behavior), and MonitorSDK.stop on
\* a started SDK leaves none of them running.
C31_StartStopsAll ==
    [][/\ (lastCall'.op = "MonitorSDK.start" /\ ~isInitialized) =>
             perfRunning' /\ errRunning' /\ behRunning'
       /\ (lastCall'.op = "MonitorSDK.stop" /\ isInitialized) =>
             ~perfRunning' /\ ~errRunning' /\ ~behRunning'
      ]_vars

\* C32: the error buffer never holds more than maxErrorsPerSession events and
\* the behavior buffer never more than maxEventsPerSession; each buffer holds
\* the last events admitted since its last collect, in the order of capture,
\* so an admission to a full buffer drops the oldest and keeps the new one;
\* collect returns exactly the buffered events in that order and leaves the
\* buffer empty.
C32_BoundedOldestDrop ==
    [][/\ Len(errorBuffer') <= maxErrorsPerSession
       /\ Len(eventBuffer') <= maxEventsPerSession
       /\ errorBuffer' = sliceLast(sinceCollect'.error, maxErrorsPerSession)
       /\ eventBuffer' = sliceLast(sinceCollect'.behavior, maxEventsPerSession)
       /\ ErrorCollect =>
            /\ returned'.errors = sliceLast(sinceCollect.error, maxErrorsPerSession)
            /\ errorBuffer' = << >>
       /\ BehaviorCollect =>
            /\ returned'.events = sliceLast(sinceCollect.behavior, maxEventsPerSession)
            /\ eventBuffer' = << >>
      ]_vars

\* the error buffer has overflowed since its last collect, and the last
\* collect returned a full behavior buffer that had lost its oldest event
C32_Witness ==
    /\ Len(sinceCollect.error) > maxErrorsPerSession
    /\ Len(errorBuffer) = maxErrorsPerSession
    /\ returned.of = "behavior"
    /\ Len(returned.events) = maxEventsPerSession
    /\ returned.events[1] > 1

\* C33: when a replay of the stored events resumes after its send, every
\* stored event that was not part of the replay (spilled by another send
\* while the replay was in flight) is still stored.
C33_ReplayKeepsNewSpills ==
    [][\A s \in Slots :
         ResumesNow(s) /\ sends[s].caller = "retry" =>
            Range(Stored) \ Range(Flatten(sends[s].batches))
               \subseteq Range(getStoredFailedEvents(failedItem'))
      ]_vars

\* C34: no stored event is in the send calls of two replays that are in
\* flight at the same time.
C34_OneReplayPerEvent ==
    \A s \in Slots : \A t \in Slots \ {s} :
        (sends[s].caller = "retry" /\ sends[t].caller = "retry") =>
            Range(Flatten(sends[s].batches)) \cap Range(Flatten(sends[t].batches)) = {}

\* C35: after MonitorSDK.stop on a started SDK no captured event is left in
\* the buffer of a capture component: the buffers of the ErrorCollector and
\* of the BehaviorCollector are empty, their events handed to the final
\* flush.
C35_StopLeavesNoBuffer ==
    [][(lastCall'.op = "MonitorSDK.stop" /\ isInitialized) =>
          /\ behBufferLen' = 0
          /\ errorBuffer' = << >>
      ]_vars

\* C36: an event that a capture component creates after setUser(u) on this
\* SDK carries userId u, and one created after clearUser carries no userId.
C36_EnvelopeFollowsIdentity ==
    [][\A component \in Components :
          (CreateEvent(component) /\ identity.called) =>
              envelope'.userId = identity.userId
      ]_vars

\* C37: two errors handed to the collector that differ in message, fileName,
\* lineNumber or columnNumber, and for which a fingerprint is computed, have
\* different fingerprints, and both have an event in the session.
C37_FingerprintSeparates ==
    \A p \in errTriggered : \A q \in errTriggered \ {p} :
        (~generateErrorFingerprint(p).threw /\ ~generateErrorFingerprint(q).threw) =>
            /\ generateErrorFingerprint(p).value # generateErrorFingerprint(q).value
            /\ \E i \in 1..Len(errLog) : errLog[i].error = p
            /\ \E i \in 1..Len(errLog) : errLog[i].error = q

\* the runs of setupEventListeners of which the page still holds a listener
\* (the throttled handlers, shared by all runs, left aside), and the runs of
\* the observer set-up of which an observer is still connected
installedListenerSets(dom) ==
    {l.handler[2] : l \in {x \in dom : x.handler[1] = "replay" /\ x.handler[2] # 0}}

connectedObserverSets(obs) ==
    {o.run : o \in {x \in obs : x.entryType \in {"mutation", "intersection"}}}

\* C38: whatever startRecording, pauseRecording, resumeRecording and
\* stopRecording were called, the page holds the listeners and observers of
\* at most one startRecording; after stopRecording it holds none; and after
\* startRecording the recorder records with one set installed.
C38_OneSetInstalled ==
    [][/\ Cardinality(installedListenerSets(domListeners')) <= 1
       /\ Cardinality(connectedObserverSets(observers')) <= 1
       /\ lastCall'.op = "stopRecording" =>
             /\ installedListenerSets(domListeners') = {}
             /\ connectedObserverSets(observers') = {}
             /\ \A l \in domListeners' : l.handler[1] # "replay"
       /\ lastCall'.op = "startRecording" =>
             /\ isRecording'
             /\ Cardinality(installedListenerSets(domListeners')) = 1
             /\ Cardinality(connectedObserverSets(observers')) = 1
      ]_vars

\* C39: for every configured batchSize each iteration of the loop of
\* createBatches pushes a batch of at least one event and moves i forward,
\* so the loop ends after at most events.length iterations; and the batches
\* that createBatches returns hold every event given to send.
C39_LoopEnds ==
    [][/\ LoopIteration =>
             /\ loopI' > loopI
             /\ Len(Last(batchOut')) >= 1
       /\ LoopReturns => joined(batchOut) = batchIn
      ]_vars

====
